---- MODULE Spec2Model ----
(***************************************************************************)
(* State-machine model of the mobile UI test-automation scaffold:          *)
(*   config/config_manager.py  ConfigManager (load, merge, get, set_env)   *)
(*   core/driver_manager.py    DriverManager (start, quit, restart, alive) *)
(*   core/device_manager.py    DeviceManager (discovery, info, install)    *)
(*   pages/base_page.py        BasePage (element operations, scrolling)    *)
(*   tests/base_test.py        BaseTest (setup, assertion helpers)         *)
(*   utils/report_manager.py   ReportManager (allure commands)             *)
(* YAML values are tagged records [t |-> kind, v |-> payload]; a mapping   *)
(* is a function from string keys to values.                               *)
(***************************************************************************)
EXTENDS Integers, Sequences, FiniteSets, TLC

VARIABLES
    mbase,      \* _merge_config: the base_config argument before the calls
    moverlay,   \* _merge_config: the env_config argument
    mstate,     \* _merge_config: base_config as the calls left it (in place)
    mraised,    \* _merge_config: the last call raised
    mcalls,     \* _merge_config: number of applications so far
    config_file, \* content of config.yaml as yaml.safe_load parses it
    env_file,   \* env_config.yaml: "absent" or its parsed content
    env,        \* ConfigManager.env
    config,     \* ConfigManager.config
    load_error, \* the last _load_config took its except branch
    last,       \* the last ConfigManager call: operation, inputs, outcome
    driver,     \* DriverManager.driver: 0 (None) or the session it holds
    wait,       \* DriverManager.wait: 0 (None) or the session it was made for
    opened,     \* sessions webdriver.Remote has created so far (1..opened)
    quit_called, \* sessions whose quit() has been called
    sent_caps,  \* capability set the last start call passed to webdriver.Remote
    dlast,      \* the last DriverManager call: operation, inputs, outcome
    dev,        \* the last DeviceManager call: operation, inputs, outcome
    page,       \* the last BasePage call: operation, inputs, outcome
    harness,    \* the last BaseTest helper call: operation, inputs, outcome
    report,     \* the last ReportManager call: operation, inputs, outcome
    cli,        \* the last run of a script (run_tests, init_framework)
    util,       \* the last call of a helper of utils/helpers.py or of a wait
    test_driver, \* BaseTest.driver: 0 (unset or None) or the session it refers to
    race        \* two runs of run_tests sharing one allure results directory

mergeVars == <<mbase, moverlay, mstate, mraised, mcalls>>
cfgVars == <<config_file, env_file, env, config, load_error, last>>
drvVars == <<driver, wait, opened, quit_called, sent_caps, dlast>>
extVars == <<cli, util, test_driver, race>>
libVars == <<dev, page, harness, report, extVars>>
vars == <<mbase, moverlay, mstate, mraised, mcalls,
          config_file, env_file, env, config, load_error, last,
          driver, wait, opened, quit_called, sent_caps, dlast,
          dev, page, harness, report, cli, util, test_driver, race>>

----------------------------------------------------------------------------
(* Bounds of the model *)

MaxBaseEntries == 3      \* keys (at all levels) of a base mapping to merge
MaxOverlayEntries == 2   \* keys (at all levels) of an overlay to merge
MaxFileEntries == 2      \* keys (at all levels) of a document on disk
MaxPathLen == 2          \* segments of a dotted key path
MaxSessions == 3         \* sessions opened in one run
MaxDriverCfgEntries == 2 \* keys (at all levels) of the configuration a start reads
MaxOverrideKeys == 1     \* keys of the capabilities argument of a start
MaxDevices == 2          \* lines or entries of a device listing
MaxScrolls == 3          \* max_scrolls of a scroll_to_element call
MaxTextLen == 2          \* characters of a text an assertion compares

----------------------------------------------------------------------------
(* YAML values *)

IntV(n) == [t |-> "int", v |-> n]
StrV(s) == [t |-> "str", v |-> s]
MapV(m) == [t |-> "map", v |-> m]
NoneV == [t |-> "none", v |-> 0]
ListV == [t |-> "list", v |-> 0]
EmptyMap == MapV(<<>>)

BoolV(b) == [t |-> "bool", v |-> b]
\* a Python list
SeqV(q) == [t |-> "seq", v |-> q]

IsDict(value) == value.t = "map"

\* Python truth value of a YAML value
Truthy(value) ==
    CASE value.t = "none" -> FALSE
      [] value.t = "bool" -> value.v
      [] value.t = "int" -> value.v # 0
      [] value.t = "str" -> value.v # ""
      [] value.t = "map" -> DOMAIN value.v # {}
      [] OTHER -> TRUE

Keys == {"appium", "host", "port"}
KeyOrder == <<"appium", "host", "port">>
Scalars == {IntV(4723), IntV(4724), StrV("127.0.0.1")}

CfgKeys == {"appium", "port"}
CfgScalars == {IntV(4723), IntV(4724)}
Envs == {"dev", "test"}

RECURSIVE Entries(_)
RECURSIVE SumEntries(_, _)
SumEntries(m, D) ==
    IF D = {} THEN 0
    ELSE LET k == CHOOSE x \in D : TRUE
         IN  Entries(m[k]) + SumEntries(m, D \ {k})
Entries(value) ==
    IF IsDict(value)
    THEN Cardinality(DOMAIN value.v) + SumEntries(value.v, DOMAIN value.v)
    ELSE 0

Put(m, key, value) ==
    [k \in DOMAIN m \cup {key} |-> IF k = key THEN value ELSE m[k]]

FlatMaps(K, S, n) ==
    {MapV(f) : f \in UNION {[D -> S] : D \in {X \in SUBSET K : Cardinality(X) <= n}}}

\* functions from a subset of Ks to scalars and flat mappings, with at most
\* n keys in all
RECURSIVE DocFns(_, _, _, _)
DocFns(K, S, Ks, n) ==
    IF Ks = {} THEN {<<>>}
    ELSE LET k == CHOOSE x \in Ks : TRUE
             rest == Ks \ {k}
         IN  DocFns(K, S, rest, n)
             \cup UNION {{Put(f, k, value) :
                            f \in DocFns(K, S, rest, n - 1 - Entries(value))} :
                         value \in IF n >= 1 THEN S \cup FlatMaps(K, S, n - 1) ELSE {}}

\* mappings of nesting depth at most two with at most n keys in all
DocsOver(K, S, n) == {MapV(f) : f \in DocFns(K, S, K, n)}

ItemsOrder(m) == SelectSeq(KeyOrder, LAMBDA k : k \in DOMAIN m)

----------------------------------------------------------------------------
(* ConfigManager._merge_config: the result is base_config as the call      *)
(* leaves it, and whether the call raised (TypeError / AttributeError).    *)

RECURSIVE _merge_config(_, _)
RECURSIVE MergeItems(_, _, _)

\* a merge that keeps the base value of a key both documents define
\* (base_config.setdefault(key, value))
MergeItemsKeepBase(base_config, env_config, items) ==
    IF items = <<>> THEN [ok |-> TRUE, val |-> base_config]
    ELSE IF ~IsDict(base_config)
    THEN [ok |-> FALSE, val |-> base_config]
    ELSE LET key == Head(items)
             value == env_config.v[key]
         IN  IF IsDict(value) /\ key \in DOMAIN base_config.v
             THEN LET r == _merge_config(base_config.v[key], value)
                      merged == MapV(Put(base_config.v, key, r.val))
                  IN  IF r.ok THEN MergeItems(merged, env_config, Tail(items))
                      ELSE [ok |-> FALSE, val |-> merged]
             ELSE IF key \in DOMAIN base_config.v
             THEN MergeItems(base_config, env_config, Tail(items))
             ELSE MergeItems(MapV(Put(base_config.v, key, value)),
                             env_config, Tail(items))

\* a merge that creates an empty mapping for a new nested key and forgets
\* to fill it
MergeItemsNoFill(base_config, env_config, items) ==
    IF items = <<>> THEN [ok |-> TRUE, val |-> base_config]
    ELSE IF ~IsDict(base_config)
    THEN [ok |-> FALSE, val |-> base_config]
    ELSE LET key == Head(items)
             value == env_config.v[key]
         IN  IF IsDict(value) /\ key \in DOMAIN base_config.v
             THEN LET r == _merge_config(base_config.v[key], value)
                      merged == MapV(Put(base_config.v, key, r.val))
                  IN  IF r.ok THEN MergeItems(merged, env_config, Tail(items))
                      ELSE [ok |-> FALSE, val |-> merged]
             ELSE MergeItems(MapV(Put(base_config.v, key,
                                      IF IsDict(value) THEN EmptyMap ELSE value)),
                             env_config, Tail(items))

MergeItems(base_config, env_config, items) ==
    IF items = <<>> THEN [ok |-> TRUE, val |-> base_config]
    ELSE IF ~IsDict(base_config)
    THEN [ok |-> FALSE, val |-> base_config]
    ELSE LET key == Head(items)
             value == env_config.v[key]
         IN  IF IsDict(value) /\ key \in DOMAIN base_config.v
             THEN LET r == _merge_config(base_config.v[key], value)
                      merged == MapV(Put(base_config.v, key, r.val))
                  IN  IF r.ok THEN MergeItems(merged, env_config, Tail(items))
                      ELSE [ok |-> FALSE, val |-> merged]
             ELSE MergeItems(MapV(Put(base_config.v, key, value)),
                             env_config, Tail(items))

_merge_config(base_config, env_config) ==
    IF ~IsDict(env_config) THEN [ok |-> FALSE, val |-> base_config]
    ELSE MergeItems(base_config, env_config, ItemsOrder(env_config.v))

----------------------------------------------------------------------------
(* ConfigManager.get: key_path is modelled by the sequence of its          *)
(* dot-separated segments (key_path.split('.')).                           *)

RECURSIVE Walk(_, _)
Walk(value, keys) ==
    IF keys = <<>> THEN [exc |-> "none", val |-> value]
    ELSE IF ~IsDict(value) THEN [exc |-> "TypeError", val |-> NoneV]
    ELSE IF Head(keys) \notin DOMAIN value.v THEN [exc |-> "KeyError", val |-> NoneV]
    ELSE Walk(value.v[Head(keys)], Tail(keys))

\* a lookup whose except clause names KeyError only
get_KeyErrorOnly(cfg, key_path, default) ==
    LET w == Walk(cfg, key_path)
    IN  IF w.exc = "none" THEN [raised |-> FALSE, val |-> w.val]
        ELSE IF w.exc \in {"KeyError"}
        THEN [raised |-> FALSE, val |-> default]
        ELSE [raised |-> TRUE, val |-> NoneV]

get(cfg, key_path, default) ==
    LET w == Walk(cfg, key_path)
    IN  IF w.exc = "none" THEN [raised |-> FALSE, val |-> w.val]
        ELSE IF w.exc \in {"KeyError", "TypeError"}
        THEN [raised |-> FALSE, val |-> default]
        ELSE [raised |-> TRUE, val |-> NoneV]

----------------------------------------------------------------------------
(* ConfigManager._load_config.  io is what the file system does to this    *)
(* load: "ok", "base_fails" (open or yaml.safe_load of config.yaml         *)
(* raises), "env_fails" (the same for env_config.yaml).                    *)

AbsentFile == [t |-> "absent", v |-> 0]
IOOutcomes == {"ok", "base_fails", "env_fails"}

LoadFailed == [config |-> EmptyMap, error |-> TRUE, raised |-> FALSE]

\* a load without the except branch: the exception escapes and the
\* configuration stays as the failing step left it
_load_config_unguarded(old, cf, ef, e, io) ==
    IF io = "base_fails" THEN [config |-> old, error |-> TRUE, raised |-> TRUE]
    ELSE IF ef = AbsentFile THEN [config |-> cf, error |-> FALSE, raised |-> FALSE]
    ELSE IF io = "env_fails" \/ ~IsDict(ef)
    THEN [config |-> cf, error |-> TRUE, raised |-> TRUE]
    ELSE IF e \in DOMAIN ef.v
    THEN LET r == _merge_config(cf, ef.v[e])
         IN  [config |-> r.val, error |-> ~r.ok, raised |-> ~r.ok]
    ELSE [config |-> cf, error |-> FALSE, raised |-> FALSE]

\* old is self.config before the call (unbound at construction)
_load_config(old, cf, ef, e, io) ==
    IF io = "base_fails" THEN LoadFailed
    ELSE IF ef = AbsentFile THEN [config |-> cf, error |-> FALSE, raised |-> FALSE]
    ELSE IF io = "env_fails" \/ ~IsDict(ef) THEN LoadFailed
    ELSE IF e \in DOMAIN ef.v
    THEN LET r == _merge_config(cf, ef.v[e])
         IN  IF r.ok THEN [config |-> r.val, error |-> FALSE, raised |-> FALSE]
             ELSE LoadFailed
    ELSE [config |-> cf, error |-> FALSE, raised |-> FALSE]

----------------------------------------------------------------------------
(* Paths of a document, stated without the lookup code *)

PathsOver(K, n) == UNION {[1..i -> K] : i \in 1..n}

RECURSIVE HasPath(_, _)
HasPath(doc, p) ==
    /\ IsDict(doc)
    /\ p[1] \in DOMAIN doc.v
    /\ Len(p) > 1 => HasPath(doc.v[p[1]], Tail(p))

RECURSIVE At(_, _)
At(doc, p) == IF Len(p) = 1 THEN doc.v[p[1]] ELSE At(doc.v[p[1]], Tail(p))

\* the overlay sets a non-mapping at a proper prefix of p
ReplacedAbove(overlay, p) ==
    \E i \in 1..(Len(p) - 1) :
        /\ HasPath(overlay, SubSeq(p, 1, i))
        /\ ~IsDict(At(overlay, SubSeq(p, 1, i)))

----------------------------------------------------------------------------
(* Specification of the ConfigManager: construction, set_env, get *)

\* io: what the file reads of a load did
NoCall == [op |-> "none", io |-> "ok", path |-> <<>>, default |-> NoneV,
           val |-> NoneV, raised |-> FALSE]

CfgDocs == DocsOver(CfgKeys, CfgScalars, MaxFileEntries)
BaseFiles == CfgDocs \cup {NoneV}
\* the environment-keyed document: environment names count as keys
RECURSIVE EnvFns(_, _)
EnvFns(Es, n) ==
    IF Es = {} THEN {<<>>}
    ELSE LET e == CHOOSE x \in Es : TRUE
             rest == Es \ {e}
         IN  EnvFns(rest, n)
             \cup UNION {{Put(f, e, overlay) :
                            f \in EnvFns(rest, n - 1 - Entries(overlay))} :
                         overlay \in IF n >= 1
                                     THEN DocsOver(CfgKeys, CfgScalars, n - 1) \cup {NoneV}
                                     ELSE {}}
EnvDocs == {MapV(f) : f \in EnvFns(Envs, MaxFileEntries + 1)}
EnvFiles == EnvDocs \cup {NoneV, AbsentFile}

GetPaths == PathsOver(CfgKeys, MaxPathLen)
Defaults == {StrV("X")}

\* no call made yet on the device manager, a page, the test harness or the
\* report manager
NoLibCall == [op |-> "none"]
ExtIdle ==
    /\ cli = NoLibCall
    /\ util = NoLibCall
    /\ test_driver = 0
    /\ race = NoLibCall

LibIdle ==
    /\ ExtIdle
    /\ dev = NoLibCall
    /\ page = NoLibCall
    /\ harness = NoLibCall
    /\ report = NoLibCall

MergeIdle ==
    /\ mbase = NoneV
    /\ moverlay = NoneV
    /\ mstate = NoneV
    /\ mraised = FALSE
    /\ mcalls = 0

NoCaps == [t |-> "nocaps", v |-> 0]
\* probe: what the page-source probe of a liveness check did; alive: what the
\* check returned; steps: the external calls of a restart, in order
NoDriverCall == [op |-> "none", capabilities |-> NoneV, app_exists |-> FALSE,
                 fail |-> "none", before |-> 0, raised |-> FALSE, quit_raised |-> FALSE, ret |-> 0,
                 probe |-> "none", alive |-> FALSE, steps |-> <<>>]

\* DriverManager.__init__
DriverIdle ==
    /\ driver = 0
    /\ wait = 0
    /\ opened = 0
    /\ quit_called = {}
    /\ sent_caps = NoCaps
    /\ dlast = NoDriverCall

\* ConfigManager.__init__(env = e)
Init ==
    /\ LibIdle
    /\ MergeIdle
    /\ DriverIdle
    /\ config_file \in BaseFiles
    /\ env_file \in EnvFiles
    /\ env \in Envs
    /\ \E io \in IOOutcomes :
          LET r == _load_config(NoneV, config_file, env_file, env, io)
          IN  /\ config = r.config
              /\ load_error = r.error
              /\ last = [NoCall EXCEPT !.op = "__init__", !.io = io,
                                       !.raised = r.raised]

set_env(e, io) ==
    /\ env' = e
    /\ LET r == _load_config(config, config_file, env_file, e, io)
       IN  /\ config' = r.config
           /\ load_error' = r.error
           /\ last' = [NoCall EXCEPT !.op = "set_env", !.io = io,
                                     !.raised = r.raised]
    /\ UNCHANGED <<config_file, env_file>>
    /\ UNCHANGED <<mergeVars, drvVars, libVars>>

Get(key_path, default) ==
    /\ LET r == get(config, key_path, default)
       IN  last' = [NoCall EXCEPT !.op = "get", !.path = key_path,
                                     !.default = default, !.val = r.val,
                                     !.raised = r.raised]
    /\ UNCHANGED <<config_file, env_file, env, config, load_error>>
    /\ UNCHANGED <<mergeVars, drvVars, libVars>>

Next ==
    \/ \E e \in Envs, io \in IOOutcomes : set_env(e, io)
    \/ \E p \in GetPaths, d \in Defaults : Get(p, d)

Spec == Init /\ [][Next]_vars

(* the overlay of the active environment, when _load_config merges one *)
HasOverlay == IsDict(env_file) /\ env \in DOMAIN env_file.v
ActiveOverlay == env_file.v[env]
OverlayDefines(p) == HasOverlay /\ HasPath(ActiveOverlay, p)

\* C1: for every key path present in the merged configuration, get returns
\* the overlay's value when the active overlay defines the path, otherwise
\* the base document's value, otherwise the default.
C1_GetOverlayElseBaseElseDefault ==
    (last.op = "get" /\ HasPath(config, last.path)) =>
        last.val = IF OverlayDefines(last.path) THEN At(ActiveOverlay, last.path)
                   ELSE IF HasPath(config_file, last.path)
                        THEN At(config_file, last.path)
                        ELSE last.default

\* C1 as amended: for every key path present in the merged configuration,
\* get returns the overlay's value when the active overlay gives the path a
\* non-mapping value, the base document's value when the overlay does not
\* define the path, and the merged value stored at the path (holding every
\* key of the overlay's mapping when it is a mapping) when the overlay gives
\* the path a mapping.
C1_GetOverlayScalarElseBase ==
    (last.op = "get" /\ HasPath(config, last.path)) =>
        /\ ~last.raised
        /\ IF OverlayDefines(last.path)
           THEN IF ~IsDict(At(ActiveOverlay, last.path))
                THEN last.val = At(ActiveOverlay, last.path)
                ELSE /\ last.val = At(config, last.path)
                     /\ IsDict(last.val) =>
                            DOMAIN At(ActiveOverlay, last.path).v \subseteq DOMAIN last.val.v
           ELSE /\ HasPath(config_file, last.path)
                /\ last.val = At(config_file, last.path)

\* a lookup of a nested path whose base value the overlay replaces
C1_Witness ==
    /\ last.op = "get"
    /\ Len(last.path) = 2
    /\ HasPath(config, last.path)
    /\ OverlayDefines(last.path)
    /\ HasPath(config_file, last.path)
    /\ ~IsDict(At(ActiveOverlay, last.path))
    /\ At(config_file, last.path) # At(ActiveOverlay, last.path)
    /\ last.val = At(ActiveOverlay, last.path)

\* what C6 says the configuration is after a load
BaseMergedWithLatestOverlay ==
    IF env_file # AbsentFile /\ HasOverlay
    THEN _merge_config(config_file, ActiveOverlay).val
    ELSE config_file

\* C6: after any sequence of set_env calls whose file reads succeed, the
\* configuration is the base document merged with only the overlay of the
\* most recently set environment, and exactly the base document when the
\* overlay document does not have that environment.
C6_ConfigIsBaseMergedWithLatestOverlay ==
    (last.op = "set_env" /\ last.io = "ok") => config = BaseMergedWithLatestOverlay

\* the statement of C6 restricted to the loads that do not take the except
\* branch
ReloadKeepsOnlyLatestOverlay ==
    (last.op = "set_env" /\ ~load_error) => config = BaseMergedWithLatestOverlay

\* a step of the last _load_config raises: a file read or parse (recorded by
\* the load itself), the membership test on the overlay document, or the merge
LoadStepRaises ==
    \/ last.io = "base_fails"
    \/ /\ env_file # AbsentFile
       /\ \/ last.io = "env_fails"
          \/ ~IsDict(env_file)
          \/ HasOverlay /\ ~_merge_config(config_file, ActiveOverlay).ok

\* C7: when a step of _load_config fails, no exception escapes, the
\* configuration is exactly the empty mapping and every later get returns
\* its default.
C7_FailedLoadGivesEmptyConfig ==
    /\ LoadStepRaises => load_error
    /\ load_error =>
          /\ config = EmptyMap
          /\ ~last.raised
          /\ last.op = "get" => last.val = last.default

\* a get after a load of documents whose merge raises over a non-empty base
\* document
C7_Witness ==
    /\ load_error
    /\ HasOverlay
    /\ ~_merge_config(config_file, ActiveOverlay).ok
    /\ IsDict(config_file) /\ config_file # EmptyMap
    /\ last.op = "get"
    /\ last.val = last.default

----------------------------------------------------------------------------
(* Specification of get alone, on configurations holding every kind of     *)
(* value                                                                   *)

GetScalars == {IntV(4723), StrV("127.0.0.1"), NoneV, ListV}
GetConfigs == DocsOver(CfgKeys, GetScalars, MaxFileEntries) \cup {NoneV}
LookupPaths == PathsOver(CfgKeys \cup {"missing", "path"}, MaxPathLen)

GetInit ==
    /\ LibIdle
    /\ MergeIdle
    /\ DriverIdle
    /\ DriverIdle
    /\ config_file = NoneV
    /\ env_file = AbsentFile
    /\ env = "dev"
    /\ load_error = FALSE
    /\ config \in GetConfigs
    /\ last = NoCall

GetNext == \E p \in LookupPaths, d \in Defaults : Get(p, d)

GetSpec == GetInit /\ [][GetNext]_vars

\* C5: get returns the default, without raising, whenever a segment of the
\* path is missing or the value reached before the last segment is not a
\* mapping, and the value at the path otherwise.
C5_GetDefaultOnMissingOrNotIndexable ==
    last.op = "get" =>
        /\ ~last.raised
        /\ ~HasPath(config, last.path) => last.val = last.default
        /\ HasPath(config, last.path) => last.val = At(config, last.path)
        /\ last.path = <<"missing", "path">> => last.val = StrV("X")

\* a lookup that walks into a None or a list before its last segment
C5_Witness ==
    /\ last.op = "get"
    /\ Len(last.path) = 2
    /\ HasPath(config, <<last.path[1]>>)
    /\ At(config, <<last.path[1]>>) \in {NoneV, ListV}
    /\ last.val = StrV("X")

----------------------------------------------------------------------------
(* Specification of the merge alone *)

MergeBases == DocsOver(Keys, Scalars, MaxBaseEntries)
MergeOverlays == DocsOver(Keys, Scalars, MaxOverlayEntries)

MergeInit ==
    /\ LibIdle
    /\ mbase \in MergeBases
    /\ moverlay \in MergeOverlays
    /\ mstate = mbase
    /\ mraised = FALSE
    /\ mcalls = 0
    /\ DriverIdle
    /\ config_file = NoneV
    /\ env_file = AbsentFile
    /\ env = "dev"
    /\ config = NoneV
    /\ load_error = FALSE
    /\ last = NoCall

\* one call _merge_config(base_config, env_config) on the current base
MergeCall ==
    /\ mcalls < 2
    /\ LET r == _merge_config(mstate, moverlay)
       IN  /\ mstate' = r.val
           /\ mraised' = ~r.ok
    /\ mcalls' = mcalls + 1
    /\ UNCHANGED <<mbase, moverlay>>
    /\ UNCHANGED <<cfgVars, drvVars, libVars>>

MergeNext == MergeCall

MergeSpec == MergeInit /\ [][MergeNext]_vars

MergePaths == PathsOver(Keys, 2)

\* C2: after one _merge_config call, each overlay key whose base value and
\* overlay value are both mappings holds their recursive merge, and in every
\* other case (key absent from the base, overlay value a scalar, base value
\* a scalar under an overlay mapping) holds the overlay value; the call
\* does not raise.
C2_OverlayReplacesUnlessBothMappings ==
    mcalls = 1 =>
        /\ ~mraised
        /\ \A key \in DOMAIN moverlay.v :
              LET value == moverlay.v[key]
              IN  /\ key \in DOMAIN mstate.v
                  /\ IF key \in DOMAIN mbase.v /\ IsDict(mbase.v[key]) /\ IsDict(value)
                     THEN mstate.v[key] = _merge_config(mbase.v[key], value).val
                     ELSE mstate.v[key] = value

\* the frame and right-bias statement of C3 for one merged state
RightBiasedKeepsSiblings ==
    \A p \in MergePaths :
        /\ (HasPath(mbase, p) /\ ~HasPath(moverlay, p) /\ ~ReplacedAbove(moverlay, p))
             => (HasPath(mstate, p) /\ At(mstate, p) = At(mbase, p))
        /\ (HasPath(moverlay, p) /\ ~IsDict(At(moverlay, p)))
             => (HasPath(mstate, p) /\ At(mstate, p) = At(moverlay, p))

\* C3: after the overlay is merged, every base key the overlay does not
\* define keeps its base value and every scalar the overlay defines has the
\* overlay's value.
C3_RightBiasedKeepsSiblings ==
    mcalls = 1 => RightBiasedKeepsSiblings

\* the statement of C3 restricted to the calls that return normally
RightBiasedWhenMergeReturns ==
    (mcalls = 1 /\ ~mraised) => RightBiasedKeepsSiblings

ExampleBase ==
    MapV([k \in {"appium"} |->
            MapV([j \in {"host", "port"} |->
                    IF j = "host" THEN StrV("127.0.0.1") ELSE IntV(4723)])])
ExampleOverlay ==
    MapV([k \in {"appium"} |-> MapV([j \in {"port"} |-> IntV(4724)])])

\* the example scenario of C3 comes out as the spec says
ExampleScenarioHolds ==
    (mcalls = 1 /\ mbase = ExampleBase /\ moverlay = ExampleOverlay) =>
        /\ ~mraised
        /\ At(mstate, <<"appium", "port">>) = IntV(4724)
        /\ At(mstate, <<"appium", "host">>) = StrV("127.0.0.1")

\* C4: applying _merge_config with the same overlay a second time leaves the
\* base as the first application left it.
C4_MergeIdempotent ==
    [][mcalls = 1 => (mstate' = mstate /\ mraised' = mraised)]_vars

\* a second application after a first one that changed the base
C4_Witness ==
    mcalls = 2 /\ ~mraised /\ mstate # mbase /\ mstate # moverlay

----------------------------------------------------------------------------
(* DriverManager: capability assembly *)

DictGet(d, key, default) == IF key \in DOMAIN d.v THEN d.v[key] ELSE default

\* config_manager.get_appium_config() and its siblings: get(name, {})
SectionGet(cfg, name) == get(cfg, <<name>>, EmptyMap).val

AndroidTable ==
    { [cap |-> "platformName",    key |-> "platform_name",    dflt |-> StrV("Android")],
      [cap |-> "platformVersion", key |-> "platform_version", dflt |-> StrV("13")],
      [cap |-> "deviceName",      key |-> "device_name",      dflt |-> StrV("Android Device")],
      [cap |-> "automationName",  key |-> "automation_name",  dflt |-> StrV("UiAutomator2")],
      [cap |-> "appPackage",      key |-> "app_package",      dflt |-> StrV("")],
      [cap |-> "appActivity",     key |-> "app_activity",     dflt |-> StrV("")],
      [cap |-> "noReset",         key |-> "no_reset",         dflt |-> BoolV(TRUE)],
      [cap |-> "fullReset",       key |-> "full_reset",       dflt |-> BoolV(FALSE)],
      [cap |-> "unicodeKeyboard", key |-> "unicode_keyboard", dflt |-> BoolV(TRUE)],
      [cap |-> "resetKeyboard",   key |-> "reset_keyboard",   dflt |-> BoolV(TRUE)] }

IosTable ==
    { [cap |-> "platformName",    key |-> "platform_name",    dflt |-> StrV("iOS")],
      [cap |-> "platformVersion", key |-> "platform_version", dflt |-> StrV("16.0")],
      [cap |-> "deviceName",      key |-> "device_name",      dflt |-> StrV("iPhone")],
      [cap |-> "automationName",  key |-> "automation_name",  dflt |-> StrV("XCUITest")],
      [cap |-> "bundleId",        key |-> "bundle_id",        dflt |-> StrV("")],
      [cap |-> "noReset",         key |-> "no_reset",         dflt |-> BoolV(TRUE)],
      [cap |-> "fullReset",       key |-> "full_reset",       dflt |-> BoolV(FALSE)] }

\* the default_caps literal of a start method
TableCaps(table, platform_config, appium_config) ==
    [c \in {r.cap : r \in table} \cup {"newCommandTimeout"} |->
        IF c = "newCommandTimeout"
        THEN DictGet(appium_config, "new_command_timeout", IntV(300))
        ELSE LET r == CHOOSE x \in table : x.cap = c
             IN  DictGet(platform_config, r.key, r.dflt)]

\* default_caps[key] = value when cond
PutIf(m, cond, key, value) == IF cond THEN Put(m, key, value) ELSE m

android_default_caps(android_config, appium_config, app_exists) ==
    LET app_path == DictGet(android_config, "app_path", NoneV)
    IN  PutIf(TableCaps(AndroidTable, android_config, appium_config),
              Truthy(app_path) /\ app_exists, "app", app_path)

ios_default_caps(ios_config, appium_config, app_exists) ==
    LET udid == DictGet(ios_config, "udid", NoneV)
        app_path == DictGet(ios_config, "app_path", NoneV)
    IN  PutIf(PutIf(TableCaps(IosTable, ios_config, appium_config),
                    Truthy(udid), "udid", udid),
              Truthy(app_path) /\ app_exists, "app", app_path)

\* dict.update
Update(d, other) ==
    [k \in DOMAIN d \cup DOMAIN other |-> IF k \in DOMAIN other THEN other[k] ELSE d[k]]

\* capabilities applied the wrong way round: the defaults overwrite them
merge_capabilities_defaults_win(default_caps, capabilities) ==
    IF Truthy(capabilities) THEN Update(capabilities.v, default_caps) ELSE default_caps

\* if capabilities: default_caps.update(capabilities)
merge_capabilities(default_caps, capabilities) ==
    IF Truthy(capabilities) THEN Update(default_caps, capabilities.v) ELSE default_caps

----------------------------------------------------------------------------
(* DriverManager: start_android_driver, start_ios_driver, quit_driver.     *)
(* fail names the external step of a start that raises: "remote"           *)
(* (webdriver.Remote), "implicit_wait" (driver.implicitly_wait),           *)
(* "explicit_wait" (WebDriverWait), or "none".                             *)

FailSteps == {"none", "remote", "implicit_wait", "explicit_wait"}

\* a start that quits the held session before it opens the next one
StartDriverQuitsHeld(op, section, default_caps, capabilities, app_exists, fail) ==
    LET stage == IF ~IsDict(SectionGet(config, section)) \/ ~IsDict(SectionGet(config, "appium"))
                 THEN "config"
                 ELSE IF fail = "remote" THEN "remote"
                 ELSE IF ~IsDict(SectionGet(config, "test"))
                         \/ fail \in {"implicit_wait", "explicit_wait"}
                 THEN "wait" ELSE "ok"
        call == [NoDriverCall EXCEPT !.op = op, !.capabilities = capabilities,
                                     !.app_exists = app_exists,
                                     !.fail = fail, !.before = driver]
    IN  /\ opened < MaxSessions
        /\ sent_caps' = IF stage = "config" THEN NoCaps
                        ELSE MapV(merge_capabilities(default_caps, capabilities))
        /\ quit_called' = IF driver # 0 THEN quit_called \cup {driver} ELSE quit_called
        /\ opened' = IF stage \in {"wait", "ok"} THEN opened + 1 ELSE opened
        /\ driver' = IF stage \in {"wait", "ok"} THEN opened + 1 ELSE 0
        /\ wait' = IF stage = "ok" THEN opened + 1 ELSE 0
        /\ dlast' = IF stage = "ok" THEN [call EXCEPT !.ret = opened + 1]
                    ELSE [call EXCEPT !.raised = TRUE]
        /\ UNCHANGED <<mergeVars, cfgVars, libVars>>

StartDriver(op, section, default_caps, capabilities, app_exists, fail) ==
    LET platform_config == SectionGet(config, section)
        appium_config == SectionGet(config, "appium")
        test_config == SectionGet(config, "test")
        call == [NoDriverCall EXCEPT !.op = op, !.capabilities = capabilities,
                                     !.app_exists = app_exists,
                                     !.fail = fail, !.before = driver]
    IN  /\ opened < MaxSessions
        /\ IF ~IsDict(platform_config) \/ ~IsDict(appium_config)
           THEN \* AttributeError while default_caps is built
                /\ sent_caps' = NoCaps
                /\ dlast' = [call EXCEPT !.raised = TRUE]
                /\ UNCHANGED <<driver, wait, opened>>
           ELSE /\ sent_caps' = MapV(merge_capabilities(default_caps, capabilities))
                /\ IF fail = "remote"
                   THEN /\ dlast' = [call EXCEPT !.raised = TRUE]
                        /\ UNCHANGED <<driver, wait, opened>>
                   ELSE /\ opened' = opened + 1
                        /\ driver' = opened + 1
                        /\ IF ~IsDict(test_config) \/ fail \in {"implicit_wait", "explicit_wait"}
                           THEN /\ wait' = wait
                                /\ dlast' = [call EXCEPT !.raised = TRUE]
                           ELSE /\ wait' = opened + 1
                                /\ dlast' = [call EXCEPT !.ret = opened + 1]
        /\ UNCHANGED quit_called
        /\ UNCHANGED <<mergeVars, cfgVars, libVars>>

start_android_driver(capabilities, app_exists, fail) ==
    StartDriver("start_android_driver", "android",
                android_default_caps(SectionGet(config, "android"),
                                     SectionGet(config, "appium"), app_exists),
                capabilities, app_exists, fail)

start_ios_driver(capabilities, app_exists, fail) ==
    StartDriver("start_ios_driver", "ios",
                ios_default_caps(SectionGet(config, "ios"),
                                 SectionGet(config, "appium"), app_exists),
                capabilities, app_exists, fail)

\* a quit whose reset of driver and wait is skipped when driver.quit() raises
quit_driver_no_finally(quit_raises) ==
    /\ (driver = 0 => ~quit_raises)
    /\ dlast' = [NoDriverCall EXCEPT !.op = "quit_driver", !.before = driver,
                                     !.quit_raised = quit_raises]
    /\ IF driver # 0
       THEN /\ quit_called' = quit_called \cup {driver}
            /\ IF quit_raises THEN UNCHANGED <<driver, wait>>
               ELSE driver' = 0 /\ wait' = 0
       ELSE UNCHANGED <<driver, wait, quit_called>>
    /\ UNCHANGED <<opened, sent_caps>>
    /\ UNCHANGED <<mergeVars, cfgVars, libVars>>

\* quit_raises: driver.quit() raises; without a session nothing is called
quit_driver(quit_raises) ==
    /\ (driver = 0 => ~quit_raises)
    /\ dlast' = [NoDriverCall EXCEPT !.op = "quit_driver", !.before = driver,
                                     !.quit_raised = quit_raises]
    /\ IF driver # 0
       THEN /\ quit_called' = quit_called \cup {driver}
            /\ driver' = 0
            /\ wait' = 0
       ELSE UNCHANGED <<driver, wait, quit_called>>
    /\ UNCHANGED <<opened, sent_caps>>
    /\ UNCHANGED <<mergeVars, cfgVars, libVars>>

\* how far a start gets: "config" (AttributeError while default_caps is
\* built), "remote" (webdriver.Remote raises), "wait" (the session is open and
\* a wait step raises) or "ok"
StartStage(section, fail) ==
    IF ~IsDict(SectionGet(config, section)) \/ ~IsDict(SectionGet(config, "appium"))
    THEN "config"
    ELSE IF fail = "remote" THEN "remote"
    ELSE IF ~IsDict(SectionGet(config, "test")) \/ fail \in {"implicit_wait", "explicit_wait"}
    THEN "wait"
    ELSE "ok"

Platforms == {"android", "Android", "ios", "windows"}
\* platform.lower()
Lower(platform) == IF platform = "Android" THEN "android" ELSE platform

RestartCaps(platform, capabilities, app_exists) ==
    IF Lower(platform) = "android"
    THEN MapV(merge_capabilities(
                 android_default_caps(SectionGet(config, "android"),
                                      SectionGet(config, "appium"), app_exists),
                 capabilities))
    ELSE MapV(merge_capabilities(
                 ios_default_caps(SectionGet(config, "ios"),
                                  SectionGet(config, "appium"), app_exists),
                 capabilities))

\* a restart that starts the new session before it quits
restart_driver_start_first(platform, capabilities, app_exists, fail, quit_raises) ==
    LET stage == IF Lower(platform) \notin {"android", "ios"} THEN "platform"
                 ELSE StartStage(Lower(platform), fail)
        opens == stage \in {"wait", "ok"}
        held == IF opens THEN opened + 1 ELSE driver
        call == [NoDriverCall EXCEPT !.op = "restart_driver",
                                     !.capabilities = capabilities,
                                     !.app_exists = app_exists, !.fail = fail,
                                     !.before = driver, !.quit_raised = quit_raises]
    IN  /\ opened < MaxSessions
        /\ (driver = 0 => ~quit_raises)
        /\ opened' = IF opens THEN opened + 1 ELSE opened
        /\ quit_called' = IF stage = "ok" /\ held # 0 THEN quit_called \cup {held}
                          ELSE quit_called
        /\ driver' = IF stage = "ok" THEN 0 ELSE held
        /\ wait' = IF stage = "ok" THEN 0 ELSE wait
        /\ sent_caps' = IF stage \in {"platform", "config"} THEN NoCaps
                        ELSE RestartCaps(platform, capabilities, app_exists)
        /\ dlast' = [call EXCEPT
                        !.raised = stage # "ok",
                        !.ret = IF stage = "ok" THEN opened + 1 ELSE 0,
                        !.steps = (IF stage \in {"remote", "wait", "ok"}
                                   THEN <<"webdriver.Remote">> ELSE <<>>)
                                  \o (IF stage = "ok"
                                      THEN <<"driver.quit", "time.sleep">> ELSE <<>>)]
        /\ UNCHANGED <<mergeVars, cfgVars, libVars>>

\* restart_driver: quit_driver(), time.sleep(2), then the start of the platform
restart_driver(platform, capabilities, app_exists, fail, quit_raises) ==
    LET stage == IF Lower(platform) \notin {"android", "ios"} THEN "platform"
                 ELSE StartStage(Lower(platform), fail)
        call == [NoDriverCall EXCEPT !.op = "restart_driver",
                                     !.capabilities = capabilities,
                                     !.app_exists = app_exists, !.fail = fail,
                                     !.before = driver, !.quit_raised = quit_raises]
    IN  /\ opened < MaxSessions
        /\ (driver = 0 => ~quit_raises)
        \* self.quit_driver()
        /\ quit_called' = IF driver # 0 THEN quit_called \cup {driver} ELSE quit_called
        \* the start runs on driver = None, wait = None
        /\ opened' = IF stage \in {"wait", "ok"} THEN opened + 1 ELSE opened
        /\ driver' = IF stage \in {"wait", "ok"} THEN opened + 1 ELSE 0
        /\ wait' = IF stage = "ok" THEN opened + 1 ELSE 0
        /\ sent_caps' = IF stage \in {"platform", "config"} THEN NoCaps
                        ELSE RestartCaps(platform, capabilities, app_exists)
        /\ dlast' = [call EXCEPT
                        !.raised = stage # "ok",
                        !.ret = IF stage = "ok" THEN opened + 1 ELSE 0,
                        !.steps = (IF driver # 0 THEN <<"driver.quit">> ELSE <<>>)
                                  \o <<"time.sleep">>
                                  \o (IF stage \in {"remote", "wait", "ok"}
                                      THEN <<"webdriver.Remote">> ELSE <<>>)]
        /\ UNCHANGED <<mergeVars, cfgVars, libVars>>

\* a liveness check that does not probe the session
is_driver_alive_no_probe(probe_raises) ==
    /\ (driver = 0 => ~probe_raises)
    /\ dlast' = [NoDriverCall EXCEPT
                    !.op = "is_driver_alive", !.before = driver,
                    !.probe = IF driver = 0 THEN "none"
                              ELSE IF probe_raises THEN "raises" ELSE "ok",
                    !.alive = (driver # 0)]
    /\ UNCHANGED <<driver, wait, opened, quit_called, sent_caps>>
    /\ UNCHANGED <<mergeVars, cfgVars, libVars>>

\* probe_raises: self.driver.page_source raises; without a session nothing
\* is probed
is_driver_alive(probe_raises) ==
    /\ (driver = 0 => ~probe_raises)
    /\ dlast' = [NoDriverCall EXCEPT
                    !.op = "is_driver_alive", !.before = driver,
                    !.probe = IF driver = 0 THEN "none"
                              ELSE IF probe_raises THEN "raises" ELSE "ok",
                    !.alive = (driver # 0 /\ ~probe_raises)]
    /\ UNCHANGED <<driver, wait, opened, quit_called, sent_caps>>
    /\ UNCHANGED <<mergeVars, cfgVars, libVars>>

\* BaseTest.setup_method: is_driver_alive(), and self.start_driver() (the
\* android start without capabilities) when it returns False
setup_method(probe_raises, app_exists, fail) ==
    /\ (driver = 0 => ~probe_raises)
    /\ IF driver # 0 /\ ~probe_raises
       THEN /\ dlast' = [NoDriverCall EXCEPT !.op = "setup_method",
                                             !.before = driver, !.probe = "ok",
                                             !.alive = TRUE]
            /\ UNCHANGED <<driver, wait, opened, quit_called, sent_caps>>
            /\ UNCHANGED <<mergeVars, cfgVars, libVars>>
       ELSE StartDriver("setup_method", "android",
                        android_default_caps(SectionGet(config, "android"),
                                             SectionGet(config, "appium"), app_exists),
                        NoneV, app_exists, fail)

----------------------------------------------------------------------------
(* Configurations and capability arguments the starts are run on *)

CapCfgValues == {StrV("cfg"), NoneV}
AndroidKeys == {r.key : r \in AndroidTable} \cup {"app_path"}
IosKeys == {r.key : r \in IosTable} \cup {"udid", "app_path"}

\* a section of the configuration: missing, not a mapping, or a mapping
SectionValues(keys, n) == {AbsentFile, NoneV} \cup FlatMaps(keys, CapCfgValues, n)

\* keys a section adds to the configuration
SectionSize(value) ==
    IF value = AbsentFile THEN 0
    ELSE IF IsDict(value) THEN 1 + Cardinality(DOMAIN value.v) ELSE 1

SectionsDoc(r) ==
    MapV([k \in {x \in {"android", "ios", "appium", "test"} : r[x] # AbsentFile} |-> r[k]])

\* configurations with at most n keys in all
DriverConfigsUpTo(n) ==
    UNION {UNION {UNION {
        {SectionsDoc([android |-> a, ios |-> i, appium |-> p, test |-> t]) :
            t \in {x \in SectionValues({}, n - 1) :
                     SectionSize(a) + SectionSize(i) + SectionSize(p) + SectionSize(x) <= n}} :
          p \in {x \in SectionValues({"new_command_timeout"}, n - 1) :
                   SectionSize(a) + SectionSize(i) + SectionSize(x) <= n}} :
          i \in {x \in SectionValues(IosKeys, n - 1) : SectionSize(a) + SectionSize(x) <= n}} :
          a \in SectionValues(AndroidKeys, n - 1)}

DriverConfigs == DriverConfigsUpTo(MaxDriverCfgEntries)
LifecycleConfigs == DriverConfigsUpTo(1)

CapNames == {r.cap : r \in AndroidTable \cup IosTable}
               \cup {"newCommandTimeout", "udid", "app", "custom"}
Overrides == {NoneV} \cup FlatMaps(CapNames, {StrV("ovr")}, MaxOverrideKeys)

ConfigIdle ==
    /\ config_file = NoneV
    /\ env_file = AbsentFile
    /\ env = "dev"
    /\ load_error = FALSE
    /\ last = NoCall

----------------------------------------------------------------------------
(* Specification of the capability assembly: starts that succeed, on every *)
(* configuration and capabilities argument                                 *)

CapsInit ==
    /\ LibIdle
    /\ MergeIdle
    /\ DriverIdle
    /\ ConfigIdle
    /\ config \in DriverConfigs

\* the first start call of a manager
CapsNext ==
    /\ dlast = NoDriverCall
    /\ \/ \E c \in Overrides, e \in BOOLEAN : start_android_driver(c, e, "none")
       \/ \E c \in Overrides, e \in BOOLEAN : start_ios_driver(c, e, "none")

CapsSpec == CapsInit /\ [][CapsNext]_vars

----------------------------------------------------------------------------
(* Specification of the session lifecycle *)

DriverInit ==
    /\ LibIdle
    /\ MergeIdle
    /\ DriverIdle
    /\ ConfigIdle
    /\ config \in LifecycleConfigs

DriverNext ==
    \/ \E c \in {NoneV}, e \in BOOLEAN, f \in FailSteps : start_android_driver(c, e, f)
    \/ \E c \in {NoneV}, e \in BOOLEAN, f \in FailSteps : start_ios_driver(c, e, f)
    \/ \E r \in BOOLEAN : quit_driver(r)
    \/ \E p \in Platforms, c \in {NoneV}, e \in BOOLEAN, f \in FailSteps, r \in BOOLEAN :
          restart_driver(p, c, e, f, r)
    \/ \E r \in BOOLEAN : is_driver_alive(r)
    \/ \E r \in BOOLEAN, e \in BOOLEAN, f \in FailSteps : setup_method(r, e, f)

DriverSpec == DriverInit /\ [][DriverNext]_vars

StartOps == {"start_android_driver", "start_ios_driver"}

\* the value the configuration (or the built-in default) gives a capability
ConfiguredCap(table, platform_config, appium_config, k) ==
    IF k = "newCommandTimeout"
    THEN IF "new_command_timeout" \in DOMAIN appium_config.v
         THEN appium_config.v["new_command_timeout"] ELSE IntV(300)
    ELSE IF k = "app" THEN platform_config.v["app_path"]
    ELSE IF k = "udid" THEN platform_config.v["udid"]
    ELSE LET r == CHOOSE x \in table : x.cap = k
         IN  IF r.key \in DOMAIN platform_config.v
             THEN platform_config.v[r.key] ELSE r.dflt

SectionOrEmpty(name) == IF name \in DOMAIN config.v THEN config.v[name] ELSE EmptyMap

\* C8: in the capability set a start sends to the server, every key of the
\* capabilities argument has the argument's value, and every other key has
\* the value the configuration gives it, or the built-in default when the
\* configuration lacks it.
C8_OverridesWinOthersFromConfig ==
    (dlast.op \in StartOps /\ sent_caps # NoCaps) =>
        LET android == dlast.op = "start_android_driver"
            table == IF android THEN AndroidTable ELSE IosTable
            platform_config == SectionOrEmpty(IF android THEN "android" ELSE "ios")
            appium_config == SectionOrEmpty("appium")
            ov == IF IsDict(dlast.capabilities) THEN dlast.capabilities.v ELSE <<>>
            caps == sent_caps.v
            configured(key) == /\ key \in DOMAIN platform_config.v
                               /\ Truthy(platform_config.v[key])
            optional == (IF configured("app_path") /\ dlast.app_exists
                         THEN {"app"} ELSE {})
                        \cup (IF ~android /\ configured("udid") THEN {"udid"} ELSE {})
        IN  /\ DOMAIN caps = {r.cap : r \in table} \cup {"newCommandTimeout"}
                                \cup optional \cup DOMAIN ov
            /\ \A k \in DOMAIN ov : caps[k] = ov[k]
            /\ \A k \in DOMAIN caps \ DOMAIN ov :
                  caps[k] = ConfiguredCap(table, platform_config, appium_config, k)

\* a start whose argument overrides a capability the configuration sets,
\* beside a capability left at its built-in default
C8_Witness ==
    /\ dlast.op = "start_android_driver"
    /\ dlast.ret # 0
    /\ IsDict(dlast.capabilities)
    /\ DOMAIN dlast.capabilities.v = {"platformName"}
    /\ "android" \in DOMAIN config.v
    /\ IsDict(config.v["android"])
    /\ "platform_name" \in DOMAIN config.v["android"].v
    /\ config.v["android"].v["platform_name"] = StrV("cfg")
    /\ sent_caps.v["platformName"] = StrV("ovr")
    /\ sent_caps.v["deviceName"] = StrV("Android Device")

\* C9: every quit_driver call returns with driver and wait both None and
\* without raising, also when the session's quit raises; called without a
\* session it changes nothing.
C9_QuitReturnsToNoSession ==
    [][dlast'.op = "quit_driver" =>
          /\ driver' = 0
          /\ wait' = 0
          /\ ~dlast'.raised
          /\ driver = 0 => UNCHANGED <<driver, wait, opened, quit_called, sent_caps>>]_vars

\* a quit_driver call whose driver.quit() raised
C9_Witness ==
    /\ dlast.op = "quit_driver"
    /\ dlast.quit_raised
    /\ dlast.before # 0
    /\ dlast.before \in quit_called
    /\ driver = 0
    /\ wait = 0

\* C10: a start called without a session that fails at any step re-raises
\* and leaves the manager without a session handle.
C10_FailedStartLeavesNoSession ==
    (dlast.op \in StartOps /\ dlast.raised /\ dlast.before = 0) => driver = 0

\* the failures of a start that do leave the manager as it was
FailedStartBeforeSessionKeepsState ==
    [][(dlast'.op \in StartOps /\ dlast'.raised /\ opened' = opened)
          => UNCHANGED <<driver, wait>>]_vars

----------------------------------------------------------------------------
(* Session lifecycle: double start, restart, liveness, per-test setup *)

\* sessions opened that the manager no longer holds and never quit
Leaked == {s \in 1..opened : s # driver /\ s \notin quit_called}

\* C11: a start called while a session is held opens a second session and
\* replaces the held handle without quitting the first; a quit then quits
\* only the held session, so after start, start, quit exactly one of the two
\* opened sessions has been quit and the first is leaked.
C11_SecondStartLeaksFirst ==
    [][/\ (dlast'.op \in StartOps /\ driver # 0 /\ opened' # opened) =>
             /\ driver' = opened'
             /\ driver' # driver
             /\ quit_called' = quit_called
             /\ driver \in Leaked'
       /\ dlast'.op = "quit_driver" =>
             /\ quit_called' = quit_called \cup ({driver} \ {0})
             /\ Leaked' = Leaked
       /\ (dlast'.op = "quit_driver" /\ opened = 2 /\ driver = 2 /\ quit_called = {}) =>
             /\ quit_called' = {2}
             /\ Leaked' = {1}]_vars

\* the state after start, start, quit
C11_Witness ==
    /\ dlast.op = "quit_driver"
    /\ dlast.before = 2
    /\ opened = 2
    /\ driver = 0
    /\ quit_called = {2}
    /\ Leaked = {1}

\* position of an external call in the steps of the last call, 0 when absent
StepAt(name) ==
    IF \E i \in 1..Len(dlast.steps) : dlast.steps[i] = name
    THEN CHOOSE i \in 1..Len(dlast.steps) : dlast.steps[i] = name
    ELSE 0

\* C12: restart_driver quits, then sleeps, then starts, in that order: the
\* session held before is quit before the new one is opened, and on success
\* the manager holds only the new session.
C12_RestartQuitsSleepsStarts ==
    dlast.op = "restart_driver" =>
        /\ StepAt("time.sleep") # 0
        /\ dlast.before # 0 =>
              /\ StepAt("driver.quit") # 0
              /\ StepAt("driver.quit") < StepAt("time.sleep")
              /\ dlast.before \in quit_called
        /\ StepAt("webdriver.Remote") # 0 =>
              StepAt("time.sleep") < StepAt("webdriver.Remote")
        /\ ~dlast.raised =>
              /\ StepAt("webdriver.Remote") # 0
              /\ driver = opened
              /\ driver # dlast.before
              /\ dlast.ret = driver
              /\ wait = driver
              /\ driver \notin quit_called

\* a successful restart of a manager that held a session
C12_Witness ==
    /\ dlast.op = "restart_driver"
    /\ dlast.before # 0
    /\ ~dlast.raised
    /\ dlast.before \in quit_called
    /\ driver = opened
    /\ dlast.steps = <<"driver.quit", "time.sleep", "webdriver.Remote">>

\* C13: is_driver_alive returns False when no session is held, returns False
\* when the page-source probe raises, and returns True only when a session
\* is held and the probe completes; it never raises.
C13_AliveOnlyWhenProbeSucceeds ==
    dlast.op = "is_driver_alive" =>
        /\ ~dlast.raised
        /\ dlast.before = 0 => ~dlast.alive
        /\ dlast.probe = "raises" => ~dlast.alive
        /\ dlast.alive <=> (dlast.before # 0 /\ dlast.probe = "ok")

\* a liveness check on a held session whose probe raised
C13_Witness ==
    /\ dlast.op = "is_driver_alive"
    /\ dlast.before # 0
    /\ driver = dlast.before
    /\ dlast.probe = "raises"
    /\ ~dlast.alive

\* C18: setup_method opens and closes nothing when the session is alive;
\* when it is not alive the stale session is quit and a new one started, so
\* whenever setup_method returns normally the manager holds the one session
\* it started or found alive and the session held before is not left unquit.
C18_SetupRestartsDeadSession ==
    [][(dlast'.op = "setup_method" /\ ~dlast'.raised) =>
          /\ driver' # 0
          /\ dlast'.alive => (driver' = driver /\ opened' = opened
                                /\ quit_called' = quit_called)
          /\ ~dlast'.alive =>
                /\ opened' = opened + 1
                /\ driver' = opened'
                /\ driver # 0 => driver \in quit_called']_vars

\* the part of C18 that holds: an alive session is left alone, and a setup
\* that returns normally holds a session
SetupKeepsAliveSession ==
    [][(dlast'.op = "setup_method" /\ ~dlast'.raised) =>
          /\ driver' # 0
          /\ dlast'.alive => UNCHANGED <<driver, wait, opened, quit_called>>
          /\ ~dlast'.alive => (opened' = opened + 1 /\ driver' = opened')]_vars

----------------------------------------------------------------------------
(* DeviceManager. An external command ends "ok", exits "nonzero"           *)
(* (subprocess.run with check=True raises CalledProcessError) or is        *)
(* "missing" (FileNotFoundError).                                          *)

RunOutcomes == {"ok", "nonzero", "missing"}

RunRaises(run) ==
    CASE run = "nonzero" -> "CalledProcessError"
      [] run = "missing" -> "FileNotFoundError"
      [] OTHER -> "none"

SeqsUpTo(S, n) == UNION {[1..k -> S] : k \in 0..n}

\* except clauses that name CalledProcessError alone, in every operation
CatchesNonzeroOnly(op) == {"CalledProcessError"}

\* the exceptions the except clauses of an operation name
Catches(op) ==
    CASE op = "get_android_devices" -> {"CalledProcessError", "FileNotFoundError"}
      [] op = "get_ios_devices" -> {"CalledProcessError", "FileNotFoundError"}
      [] op = "_get_ios_device_info" -> {"CalledProcessError", "FileNotFoundError"}
      [] OTHER -> {"CalledProcessError"}

\* what an operation returns from its except clause
FailureResult(op) ==
    CASE op \in {"get_android_devices", "get_ios_devices"} -> SeqV(<<>>)
      [] op \in {"_get_android_device_info", "_get_ios_device_info"} -> NoneV
      [] OTHER -> BoolV(FALSE)

Returns(value, logs) == [ret |-> value, raised |-> "none", logs |-> logs]
Raises(exc) == [ret |-> NoneV, raised |-> exc, logs |-> <<>>]

\* the try block of an operation around its first command
TryRun(op, run, body) ==
    IF RunRaises(run) = "none" THEN body
    ELSE IF RunRaises(run) \in Catches(op)
         THEN Returns(FailureResult(op), <<"error">>)
         ELSE Raises(RunRaises(run))

\* lines adb devices prints after its title line
AdbLines ==
    { [kind |-> "blank", id |-> "", status |-> ""],
      [kind |-> "notab", id |-> "", status |-> ""],
      [kind |-> "entry", id |-> "emulator-5554", status |-> "device"],
      [kind |-> "entry", id |-> "R58M", status |-> "offline"] }
TitleLine == [kind |-> "notab", id |-> "", status |-> ""]

AndroidDevice(line) ==
    MapV([device_id |-> StrV(line.id), status |-> StrV(line.status),
          platform |-> StrV("Android")])

\* stdout: the lines of the output, title line first
get_android_devices(run, stdout) ==
    TryRun("get_android_devices", run,
           LET lines == IF stdout = <<>> THEN <<>> ELSE Tail(stdout)
               IsEntry(line) == line.kind = "entry"
               entries == SelectSeq(lines, IsEntry)
               devices == [i \in 1..Len(entries) |-> AndroidDevice(entries[i])]
           IN  Returns(SeqV(devices), <<"info">>))

\* simulators of the xcrun listing
Simulators ==
    { [udid |-> "SIM-1", name |-> "iPhone 15", state |-> "Booted", runtime |-> "iOS-17"],
      [udid |-> "SIM-2", name |-> "iPhone SE", state |-> "Shutdown", runtime |-> "iOS-16"] }
RealLines == {"", "REAL-1"}

SimDevice(d) ==
    MapV([device_id |-> StrV(d.udid), device_name |-> StrV(d.name),
          status |-> StrV(d.state), platform |-> StrV("iOS"),
          runtime |-> StrV(d.runtime)])
RealDevice(line) ==
    MapV([device_id |-> StrV(line), device_name |-> StrV("Real Device"),
          status |-> StrV("connected"), platform |-> StrV("iOS"),
          runtime |-> StrV("Real Device")])

\* run2, stdout2: the idevice_id command and its output lines
get_ios_devices(run, stdout, run2, stdout2) ==
    TryRun("get_ios_devices", run,
           IF ~stdout.json THEN Raises("JSONDecodeError")
           ELSE LET Booted(d) == d.state = "Booted"
                    NonBlank(line) == line # ""
                    booted == SelectSeq(stdout.sims, Booted)
                    sims == [i \in 1..Len(booted) |-> SimDevice(booted[i])]
                    ids == SelectSeq(stdout2, NonBlank)
                    reals == [i \in 1..Len(ids) |-> RealDevice(ids[i])]
                IN  IF run2 = "ok"
                    THEN Returns(SeqV(sims \o reals), <<"info">>)
                    ELSE Returns(SeqV(sims), <<"warning", "info">>))

PropKeys == {"model", "brand", "version", "sdk_version", "manufacturer"}

\* props: the properties the getprop output has a line for
_get_android_device_info(device_id, run, props) ==
    TryRun("_get_android_device_info", run,
           Returns(MapV([k \in {"device_id", "platform"} \cup props |->
                            IF k = "device_id" THEN StrV(device_id)
                            ELSE IF k = "platform" THEN StrV("Android")
                            ELSE StrV("prop")]),
                   <<>>))

\* run2, stdout2: the ideviceinfo command and the keys of its "key: value" lines
_get_ios_device_info(device_id, run, stdout, run2, stdout2) ==
    TryRun("_get_ios_device_info", run,
           IF ~stdout.json THEN Raises("JSONDecodeError")
           ELSE IF \E i \in 1..Len(stdout.sims) : stdout.sims[i].udid = device_id
           THEN LET i == CHOOSE j \in 1..Len(stdout.sims) :
                            /\ stdout.sims[j].udid = device_id
                            /\ \A k \in 1..(j - 1) : stdout.sims[k].udid # device_id
                    d == stdout.sims[i]
                IN  Returns(MapV([device_id |-> StrV(device_id), platform |-> StrV("iOS"),
                                  name |-> StrV(d.name), state |-> StrV(d.state),
                                  runtime |-> StrV(d.runtime)]), <<>>)
           ELSE IF run2 = "ok"
           THEN Returns(MapV([k \in {"device_id", "platform"} \cup stdout2 |->
                                IF k = "device_id" THEN StrV(device_id)
                                ELSE IF k = "platform" THEN StrV("iOS")
                                ELSE StrV("info")]), <<>>)
           ELSE Returns(NoneV, <<>>))

\* success: 'Success' in result.stdout
_install_android_app(run, success) ==
    TryRun("_install_android_app", run,
           IF success THEN Returns(BoolV(TRUE), <<"info">>)
           ELSE Returns(BoolV(FALSE), <<"error">>))

_install_ios_app(run) ==
    TryRun("_install_ios_app", run, Returns(BoolV(TRUE), <<"info">>))

_uninstall_android_app(run, success) ==
    TryRun("_uninstall_android_app", run,
           IF success THEN Returns(BoolV(TRUE), <<"info">>)
           ELSE Returns(BoolV(FALSE), <<"error">>))

_uninstall_ios_app(run) ==
    TryRun("_uninstall_ios_app", run, Returns(BoolV(TRUE), <<"info">>))

\* the record of a DeviceManager call: cmd is the operation that runs the
\* command ("none" for a platform that has none), run what its command did,
\* args the arguments and the output of the commands
DeviceCall(op, cmd, run, args, r) ==
    [op |-> op, cmd |-> cmd, run |-> run, args |-> args,
     ret |-> r.ret, raised |-> r.raised, logs |-> r.logs]

\* a device operation changes nothing but the device manager's call record
DeviceFrame ==
    /\ UNCHANGED <<page, harness, report, extVars>>
    /\ UNCHANGED <<mergeVars, cfgVars, drvVars>>

DeviceIds == {"SIM-1", "REAL-1"}

\* the xcrun output: json is FALSE when json.loads rejects it
IosListings ==
    {[json |-> TRUE, sims |-> q] : q \in SeqsUpTo(Simulators, MaxDevices)}
        \cup {[json |-> FALSE, sims |-> <<>>]}

GetAndroidDevices ==
    /\ \E run \in RunOutcomes, lines \in SeqsUpTo(AdbLines, MaxDevices),
          title \in BOOLEAN :
          LET stdout == IF title THEN <<TitleLine>> \o lines ELSE lines
          IN  dev' = DeviceCall("get_android_devices", "get_android_devices", run,
                                [stdout |-> stdout],
                                get_android_devices(run, stdout))
    /\ DeviceFrame

GetIosDevices ==
    /\ \E run \in RunOutcomes, stdout \in IosListings, run2 \in RunOutcomes,
          stdout2 \in SeqsUpTo(RealLines, MaxDevices) :
          dev' = DeviceCall("get_ios_devices", "get_ios_devices", run,
                            [stdout |-> stdout, run2 |-> run2, stdout2 |-> stdout2],
                            get_ios_devices(run, stdout, run2, stdout2))
    /\ DeviceFrame

\* get_device_info(device_id, platform)
GetDeviceInfo ==
    /\ \E device_id \in DeviceIds, platform \in Platforms :
          LET args == [device_id |-> device_id, platform |-> platform]
          IN  IF Lower(platform) = "android"
              THEN \E run \in RunOutcomes, props \in {{}, {"model"}, PropKeys} :
                      dev' = DeviceCall("get_device_info", "_get_android_device_info",
                                        run, args,
                                        _get_android_device_info(device_id, run, props))
              ELSE IF Lower(platform) = "ios"
              THEN \E run \in RunOutcomes, stdout \in IosListings,
                      run2 \in RunOutcomes, stdout2 \in {{}, {"DeviceName"}} :
                      dev' = DeviceCall("get_device_info", "_get_ios_device_info",
                                        run, args,
                                        _get_ios_device_info(device_id, run, stdout,
                                                             run2, stdout2))
              ELSE dev' = DeviceCall("get_device_info", "none", "ok", args,
                                     Returns(NoneV, <<"error">>))
    /\ DeviceFrame

\* install_app(device_id, app_path, platform)
InstallApp ==
    /\ \E device_id \in DeviceIds, platform \in Platforms, run \in RunOutcomes,
          success \in BOOLEAN :
          LET args == [device_id |-> device_id, platform |-> platform]
          IN  dev' = IF Lower(platform) = "android"
                     THEN DeviceCall("install_app", "_install_android_app", run, args,
                                     _install_android_app(run, success))
                     ELSE IF Lower(platform) = "ios"
                     THEN DeviceCall("install_app", "_install_ios_app", run, args,
                                     _install_ios_app(run))
                     ELSE DeviceCall("install_app", "none", "ok", args,
                                     Returns(BoolV(FALSE), <<"error">>))
    /\ DeviceFrame

\* uninstall_app(device_id, package_name, platform)
UninstallApp ==
    /\ \E device_id \in DeviceIds, platform \in Platforms, run \in RunOutcomes,
          success \in BOOLEAN :
          LET args == [device_id |-> device_id, platform |-> platform]
          IN  dev' = IF Lower(platform) = "android"
                     THEN DeviceCall("uninstall_app", "_uninstall_android_app", run, args,
                                     _uninstall_android_app(run, success))
                     ELSE IF Lower(platform) = "ios"
                     THEN DeviceCall("uninstall_app", "_uninstall_ios_app", run, args,
                                     _uninstall_ios_app(run))
                     ELSE DeviceCall("uninstall_app", "none", "ok", args,
                                     Returns(BoolV(FALSE), <<"error">>))
    /\ DeviceFrame

DeviceInit ==
    /\ MergeIdle
    /\ DriverIdle
    /\ ConfigIdle
    /\ config = EmptyMap
    /\ LibIdle

DeviceNext ==
    \/ GetAndroidDevices
    \/ GetIosDevices
    \/ GetDeviceInfo
    \/ InstallApp
    \/ UninstallApp

DeviceSpec == DeviceInit /\ [][DeviceNext]_vars

\* C14: device discovery never raises when its external tool (adb, xcrun) is
\* missing: it returns an empty list and logs an error.
C14_DiscoveryToolMissingGivesEmptyList ==
    (dev.op \in {"get_android_devices", "get_ios_devices"} /\ dev.run = "missing") =>
        /\ dev.raised = "none"
        /\ dev.ret = SeqV(<<>>)
        /\ dev.logs = <<"error">>

\* an iOS discovery whose xcrun was missing
C14_Witness ==
    /\ dev.op = "get_ios_devices"
    /\ dev.run = "missing"
    /\ dev.ret = SeqV(<<>>)

\* C15: for every DeviceManager operation that runs an external command, a
\* missing executable and a nonzero exit code are both caught and converted
\* to the empty, None or False result plus a log line; no exception escapes.
C15_ToolFailuresNeverEscape ==
    (dev.op # "none" /\ dev.cmd # "none" /\ dev.run \in {"missing", "nonzero"}) =>
        /\ dev.raised = "none"
        /\ dev.ret = FailureResult(dev.cmd)
        /\ dev.logs # <<>>

\* the part of C15 that holds: a nonzero exit code of the operation's command
\* is caught by every operation
NonzeroExitNeverEscapes ==
    (dev.op # "none" /\ dev.cmd # "none" /\ dev.run = "nonzero") =>
        /\ dev.raised = "none"
        /\ dev.ret = FailureResult(dev.cmd)
        /\ dev.logs = <<"error">>

----------------------------------------------------------------------------
(* BasePage, constructed over a session. A wait ends "ok", with "timeout"  *)
(* (TimeoutException) or with "error" (any other exception of the driver); *)
(* a call on the driver or on an element ends "ok" or with "error".        *)
(* failed: a step the operation executed timed out or raised.              *)

WaitOutcomes == {"ok", "timeout", "error"}
ActOutcomes == {"ok", "error"}
PresenceOutcomes == {"present", "absent", "error"}

Element == [t |-> "element", v |-> 0]

PageReturns(value, failed) == [ret |-> value, raised |-> "none", failed |-> failed]
PageRaises(exc) == [ret |-> NoneV, raised |-> exc, failed |-> TRUE]

find_element(w) ==
    IF w = "ok" THEN PageReturns(Element, FALSE) ELSE PageReturns(NoneV, TRUE)

find_elements(w) ==
    IF w = "ok" THEN PageReturns(SeqV(<<Element>>), FALSE)
    ELSE PageReturns(SeqV(<<>>), TRUE)

\* only TimeoutException is caught
wait_for_element_clickable(w) ==
    CASE w = "ok" -> PageReturns(BoolV(TRUE), FALSE)
      [] w = "timeout" -> PageReturns(BoolV(FALSE), TRUE)
      [] OTHER -> PageRaises("WebDriverException")

\* only NoSuchElementException is caught
is_element_present(f) ==
    CASE f = "present" -> PageReturns(BoolV(TRUE), FALSE)
      [] f = "absent" -> PageReturns(BoolV(FALSE), FALSE)
      [] OTHER -> PageRaises("WebDriverException")

\* wc: the clickable wait; wf: the wait of find_element; act: element.click()
click(wc, wf, act) ==
    LET c == wait_for_element_clickable(wc)
    IN  IF c.raised # "none" THEN PageReturns(BoolV(FALSE), TRUE)
        ELSE IF c.ret.v /\ find_element(wf).ret # NoneV
        THEN IF act = "ok" THEN PageReturns(BoolV(TRUE), FALSE)
             ELSE PageReturns(BoolV(FALSE), TRUE)
        ELSE PageReturns(BoolV(FALSE), TRUE)

\* clear: element.clear(); act: element.send_keys(text)
send_keys(wf, clear_first, clear, act) ==
    IF find_element(wf).ret # NoneV
    THEN IF (clear_first /\ clear = "error") \/ act = "error"
         THEN PageReturns(BoolV(FALSE), TRUE)
         ELSE PageReturns(BoolV(TRUE), FALSE)
    ELSE PageReturns(BoolV(FALSE), TRUE)

\* act: element.text
get_text(wf, act) ==
    IF find_element(wf).ret # NoneV
    THEN IF act = "ok" THEN PageReturns(StrV("text"), FALSE)
         ELSE PageReturns(StrV(""), TRUE)
    ELSE PageReturns(StrV(""), TRUE)

\* act: element.get_attribute(attribute), value what it returns
get_attribute(wf, act, value) ==
    IF find_element(wf).ret # NoneV
    THEN IF act = "ok"
         THEN PageReturns(IF Truthy(value) THEN value ELSE StrV(""), FALSE)
         ELSE PageReturns(StrV(""), TRUE)
    ELSE PageReturns(StrV(""), TRUE)

\* act: driver.swipe; nothing is returned
swipe(act) == PageReturns(NoneV, act = "error")

\* size: driver.get_window_size(); act: driver.swipe inside self.swipe
scroll_down(size, act) ==
    IF size = "error" THEN PageReturns(NoneV, TRUE) ELSE swipe(act)

scroll_up(size, act) ==
    IF size = "error" THEN PageReturns(NoneV, TRUE) ELSE swipe(act)

\* a loop that scrolls once more after the presence check succeeded
RECURSIVE ScrollLoopScrollsAfterFound(_, _, _, _)
ScrollLoopScrollsAfterFound(i, max_scrolls, found, steps) ==
    IF i >= max_scrolls
    THEN [ret |-> BoolV(FALSE), raised |-> "none", failed |-> FALSE, steps |-> steps]
    ELSE LET c == is_element_present(found[i + 1])
         IN  IF c.raised # "none"
             THEN [ret |-> NoneV, raised |-> c.raised, failed |-> TRUE,
                   steps |-> steps \o <<"check">>]
             ELSE IF c.ret.v
             THEN [ret |-> BoolV(TRUE), raised |-> "none", failed |-> FALSE,
                   steps |-> steps \o <<"check", "scroll", "sleep">>]
             ELSE ScrollLoopScrollsAfterFound(i + 1, max_scrolls, found,
                                              steps \o <<"check", "scroll", "sleep">>)

\* for i in range(max_scrolls): found[i + 1] is what the presence check of
\* cycle i finds; steps lists the checks, scrolls and sleeps made
RECURSIVE ScrollLoop(_, _, _, _)
ScrollLoop(i, max_scrolls, found, steps) ==
    IF i >= max_scrolls
    THEN [ret |-> BoolV(FALSE), raised |-> "none", failed |-> FALSE, steps |-> steps]
    ELSE LET c == is_element_present(found[i + 1])
         IN  IF c.raised # "none"
             THEN [ret |-> NoneV, raised |-> c.raised, failed |-> TRUE,
                   steps |-> steps \o <<"check">>]
             ELSE IF c.ret.v
             THEN [ret |-> BoolV(TRUE), raised |-> "none", failed |-> FALSE,
                   steps |-> steps \o <<"check">>]
             ELSE ScrollLoop(i + 1, max_scrolls, found,
                             steps \o <<"check", "scroll", "sleep">>)

scroll_to_element(max_scrolls, found) == ScrollLoop(0, max_scrolls, found, <<>>)

\* the failure value of an operation
Sentinel(op) ==
    CASE op = "find_element" -> NoneV
      [] op = "find_elements" -> SeqV(<<>>)
      [] op \in {"click", "send_keys", "scroll_to_element"} -> BoolV(FALSE)
      [] op \in {"get_text", "get_attribute"} -> StrV("")
      [] OTHER -> NoneV

ElementOps == {"find_element", "find_elements", "click", "send_keys", "get_text",
               "get_attribute", "swipe", "scroll_down", "scroll_up",
               "scroll_to_element"}

PageCall(op, args, r) ==
    [op |-> op, args |-> args, ret |-> r.ret, raised |-> r.raised,
     failed |-> r.failed,
     steps |-> IF op = "scroll_to_element" THEN r.steps ELSE <<>>]

\* a page operation changes nothing but the page's call record
PageFrame ==
    /\ UNCHANGED <<dev, harness, report, extVars>>
    /\ UNCHANGED <<mergeVars, cfgVars, drvVars>>

FindElement ==
    /\ \E w \in WaitOutcomes : page' = PageCall("find_element", <<w>>, find_element(w))
    /\ PageFrame
FindElements ==
    /\ \E w \in WaitOutcomes : page' = PageCall("find_elements", <<w>>, find_elements(w))
    /\ PageFrame
Click ==
    /\ \E wc \in WaitOutcomes, wf \in WaitOutcomes, act \in ActOutcomes :
          page' = PageCall("click", <<wc, wf, act>>, click(wc, wf, act))
    /\ PageFrame
SendKeys ==
    /\ \E wf \in WaitOutcomes, clear_first \in BOOLEAN, clear \in ActOutcomes,
          act \in ActOutcomes :
          page' = PageCall("send_keys",
                           <<wf, IF clear_first THEN "clear_first" ELSE "keep", clear, act>>,
                           send_keys(wf, clear_first, clear, act))
    /\ PageFrame
GetText ==
    /\ \E wf \in WaitOutcomes, act \in ActOutcomes :
          page' = PageCall("get_text", <<wf, act>>, get_text(wf, act))
    /\ PageFrame
GetAttribute ==
    /\ \E wf \in WaitOutcomes, act \in ActOutcomes,
          value \in {StrV("value"), StrV(""), NoneV} :
          page' = PageCall("get_attribute",
                           <<wf, act, value.t, IF value.t = "str" THEN value.v ELSE "">>,
                           get_attribute(wf, act, value))
    /\ PageFrame
Swipe ==
    /\ \E act \in ActOutcomes : page' = PageCall("swipe", <<act>>, swipe(act))
    /\ PageFrame
ScrollDown ==
    /\ \E size \in ActOutcomes, act \in ActOutcomes :
          page' = PageCall("scroll_down", <<size, act>>, scroll_down(size, act))
    /\ PageFrame
ScrollUp ==
    /\ \E size \in ActOutcomes, act \in ActOutcomes :
          page' = PageCall("scroll_up", <<size, act>>, scroll_up(size, act))
    /\ PageFrame
ScrollToElement ==
    /\ \E max_scrolls \in (-1)..MaxScrolls :
          \E found \in [1..(IF max_scrolls < 0 THEN 0 ELSE max_scrolls) -> PresenceOutcomes] :
             page' = PageCall("scroll_to_element",
                              [max_scrolls |-> max_scrolls, found |-> found],
                              scroll_to_element(max_scrolls, found))
    /\ PageFrame

PageInit ==
    /\ MergeIdle
    /\ DriverIdle
    /\ ConfigIdle
    /\ config = EmptyMap
    /\ LibIdle

PageNext ==
    \/ FindElement
    \/ FindElements
    \/ Click
    \/ SendKeys
    \/ GetText
    \/ GetAttribute
    \/ Swipe
    \/ ScrollDown
    \/ ScrollUp
    \/ ScrollToElement

PageSpec == PageInit /\ [][PageNext]_vars

\* C16: every element operation returns its failure value (None, [], False
\* or '') when a wait times out or the driver raises during the operation;
\* no exception propagates to the caller.
C16_ElementOpsReturnSentinel ==
    (page.op \in ElementOps /\ page.failed) =>
        /\ page.raised = "none"
        /\ page.ret = Sentinel(page.op)

\* the part of C16 that holds: the operations that wrap their body in
\* `except Exception`
WrappedOpsReturnSentinel ==
    (page.op \in ElementOps \ {"scroll_to_element"} /\ page.failed) =>
        /\ page.raised = "none"
        /\ page.ret = Sentinel(page.op)

Count(q, x) == Cardinality({i \in 1..Len(q) : q[i] = x})

\* C17: scroll_to_element makes at most max_scrolls check-then-scroll cycles;
\* it returns True at the first cycle whose presence check succeeds, without
\* scrolling again, and False after max_scrolls failed checks (at once, with
\* no check, when max_scrolls is 0).
C17_ScrollToElementBounded ==
    page.op = "scroll_to_element" =>
        LET max_scrolls == page.args.max_scrolls
            found == page.args.found
            cycles == IF max_scrolls < 0 THEN 0 ELSE max_scrolls
            checks == Count(page.steps, "check")
            scrolls == Count(page.steps, "scroll")
            firstPresent(j) == /\ found[j] = "present"
                               /\ \A k \in 1..(j - 1) : found[k] = "absent"
        IN  /\ checks <= cycles
            /\ scrolls <= cycles
            /\ max_scrolls = 0 => (page.steps = <<>> /\ page.ret = BoolV(FALSE))
            /\ page.raised = "none" =>
                  /\ page.ret \in {BoolV(TRUE), BoolV(FALSE)}
                  /\ page.ret = BoolV(TRUE) <=> \E j \in 1..cycles : firstPresent(j)
                  /\ page.ret = BoolV(TRUE) =>
                        /\ firstPresent(checks)
                        /\ scrolls = checks - 1
                        /\ page.steps[Len(page.steps)] = "check"
                  /\ page.ret = BoolV(FALSE) =>
                        /\ checks = cycles
                        /\ scrolls = cycles
                        /\ \A k \in 1..cycles : found[k] = "absent"

\* the element is found at the third check, after two scrolls
C17_Witness ==
    /\ page.op = "scroll_to_element"
    /\ page.args.max_scrolls = 3
    /\ page.ret = BoolV(TRUE)
    /\ page.steps = <<"check", "scroll", "sleep", "check", "scroll", "sleep", "check">>

----------------------------------------------------------------------------
(* BaseTest: failure screenshot and assertion helpers. has_driver: the     *)
(* test instance has a truthy driver attribute. shot names the step of the *)
(* capture that raises: "makedirs", "save" (driver.save_screenshot or the  *)
(* read of the file it should have written), "attach", or "ok".            *)

ShotOutcomes == {"ok", "makedirs", "save", "attach"}

\* a capture without the try/except around it
take_failure_screenshot_unguarded(has_driver, shot) ==
    IF ~has_driver THEN [shot |-> "skipped", raised |-> "none", logs |-> <<>>]
    ELSE IF shot = "ok" THEN [shot |-> "saved", raised |-> "none", logs |-> <<"info">>]
    ELSE [shot |-> "failed", raised |-> "OSError", logs |-> <<>>]

\* what the call did: "skipped" (no driver), "saved", or "failed" (logged)
take_failure_screenshot(has_driver, shot) ==
    IF ~has_driver THEN [shot |-> "skipped", raised |-> "none", logs |-> <<>>]
    ELSE IF shot = "ok" THEN [shot |-> "saved", raised |-> "none", logs |-> <<"info">>]
    ELSE [shot |-> "failed", raised |-> "none", logs |-> <<"error">>]

\* texts are sequences of characters
Chars == {"a", "b"}
Texts == SeqsUpTo(Chars, MaxTextLen)
\* expected_text in actual_text
IsSubstring(expected, actual) ==
    \E i \in 0..(Len(actual) - Len(expected)) :
        SubSeq(actual, i + 1, i + Len(expected)) = expected

Messages == {"", "login failed"}
Locator == <<"id", "login">>

\* message or f"...": the caller's message unless it is empty
ErrorMessage(op, message, subject, actual) ==
    IF message # "" THEN [t |-> "caller", v |-> [op |-> "", text |-> message,
                                                 subject |-> <<>>, actual |-> <<>>]]
    ELSE [t |-> "default", v |-> [op |-> op, text |-> "", subject |-> subject,
                                  actual |-> actual]]

\* the except / else branch of a helper: log, capture, pytest.fail
FailAssertion(op, message, subject, actual, has_driver, shot) ==
    LET s == take_failure_screenshot(has_driver, shot)
    IN  IF s.raised # "none"
        THEN [raised |-> s.raised, msg |-> NoneV, shot |-> s.shot,
              steps |-> <<"logger.error", "take_failure_screenshot">>]
        ELSE [raised |-> "Failed", msg |-> ErrorMessage(op, message, subject, actual),
              shot |-> s.shot,
              steps |-> <<"logger.error", "take_failure_screenshot", "pytest.fail">>]

PassAssertion ==
    [raised |-> "none", msg |-> NoneV, shot |-> "none", steps |-> <<"logger.info">>]

\* check: what wait.until(presence_of_element_located) did
assert_element_exists(check, message, has_driver, shot) ==
    IF check = "ok" THEN PassAssertion
    ELSE FailAssertion("assert_element_exists", message, Locator, <<>>, has_driver, shot)

\* check: what wait.until(visibility_of_element_located) did
assert_element_visible(check, message, has_driver, shot) ==
    IF check = "ok" THEN PassAssertion
    ELSE FailAssertion("assert_element_visible", message, Locator, <<>>, has_driver, shot)

assert_text_present(expected_text, actual_text, message, has_driver, shot) ==
    IF IsSubstring(expected_text, actual_text) THEN PassAssertion
    ELSE FailAssertion("assert_text_present", message, expected_text, actual_text,
                       has_driver, shot)

AssertOps == {"assert_element_exists", "assert_element_visible", "assert_text_present"}

\* subject: the locator or the expected text; actual: the actual text
HarnessCall(op, passed, subject, actual, message, has_driver, shot, r) ==
    [op |-> op, passed |-> passed, subject |-> subject, actual |-> actual,
     message |-> message, has_driver |-> has_driver,
     shot_fails |-> shot, raised |-> r.raised, msg |-> r.msg, shot |-> r.shot,
     steps |-> r.steps]

\* a harness helper changes nothing but the harness's call record
HarnessFrame ==
    /\ UNCHANGED <<dev, page, report, extVars>>
    /\ UNCHANGED <<mergeVars, cfgVars, drvVars>>

\* without a driver the wait cannot be built: the check raises
AssertElementExists ==
    /\ \E check \in WaitOutcomes, message \in Messages, has_driver \in BOOLEAN,
          shot \in ShotOutcomes :
          /\ ~has_driver => check = "error"
          /\ harness' = HarnessCall("assert_element_exists", check = "ok",
                                    Locator, <<>>, message,
                                    has_driver, shot,
                                    assert_element_exists(check, message, has_driver, shot))
    /\ HarnessFrame

AssertElementVisible ==
    /\ \E check \in WaitOutcomes, message \in Messages, has_driver \in BOOLEAN,
          shot \in ShotOutcomes :
          /\ ~has_driver => check = "error"
          /\ harness' = HarnessCall("assert_element_visible", check = "ok",
                                    Locator, <<>>, message,
                                    has_driver, shot,
                                    assert_element_visible(check, message, has_driver, shot))
    /\ HarnessFrame

AssertTextPresent ==
    /\ \E expected_text \in Texts, actual_text \in Texts, message \in Messages,
          has_driver \in BOOLEAN, shot \in ShotOutcomes :
          harness' = HarnessCall("assert_text_present",
                                 IsSubstring(expected_text, actual_text),
                                 expected_text, actual_text, message,
                                 has_driver, shot,
                                 assert_text_present(expected_text, actual_text, message,
                                                     has_driver, shot))
    /\ HarnessFrame

\* take_failure_screenshot called on its own (teardown_method)
TakeFailureScreenshot ==
    /\ \E has_driver \in BOOLEAN, shot \in ShotOutcomes :
          LET s == take_failure_screenshot(has_driver, shot)
          IN  harness' = HarnessCall("take_failure_screenshot", TRUE, <<>>, <<>>, "",
                                     has_driver, shot,
                                     [raised |-> s.raised, msg |-> NoneV, shot |-> s.shot,
                                      steps |-> <<"take_failure_screenshot">>])
    /\ HarnessFrame

HarnessInit ==
    /\ MergeIdle
    /\ DriverIdle
    /\ ConfigIdle
    /\ config = EmptyMap
    /\ LibIdle

HarnessNext ==
    \/ AssertElementExists
    \/ AssertElementVisible
    \/ AssertTextPresent
    \/ TakeFailureScreenshot

HarnessSpec == HarnessInit /\ [][HarnessNext]_vars

\* the failure a failed check must end in: pytest.fail with the caller's
\* message, or the default message when none was given
FailsWithMessage ==
    /\ harness.raised = "Failed"
    /\ harness.msg.t = (IF harness.message # "" THEN "caller" ELSE "default")
    /\ harness.message # "" => harness.msg.v.text = harness.message
    /\ harness.message = "" => harness.msg.v.op = harness.op

\* C19: an assertion helper whose check fails first captures a failure
\* screenshot and then raises pytest.fail with the caller's message or a
\* default message, also when the capture fails; when the check succeeds
\* nothing is raised and no screenshot is taken.
C19_FailedAssertCapturesThenFails ==
    harness.op \in AssertOps =>
        /\ ~harness.passed =>
              /\ FailsWithMessage
              /\ harness.shot \in {"saved", "failed"}
        /\ harness.passed => (harness.raised = "none" /\ harness.shot = "none")

\* C19 as amended: an assertion helper whose check fails first calls
\* take_failure_screenshot, which captures a screenshot when the test
\* instance holds a driver handle and does nothing when it holds none, and
\* then raises pytest.fail with the caller's message or a default message,
\* also when the capture fails; when the check succeeds nothing is raised
\* and no screenshot is taken.
C19_FailedAssertFailsAfterCaptureCall ==
    harness.op \in AssertOps =>
        /\ ~harness.passed =>
              /\ FailsWithMessage
              /\ harness.steps[Len(harness.steps)] = "pytest.fail"
              /\ harness.steps[Len(harness.steps) - 1] = "take_failure_screenshot"
              /\ harness.has_driver => harness.shot \in {"saved", "failed"}
              /\ harness.shot = "saved" <=> (harness.has_driver /\ harness.shot_fails = "ok")
              /\ ~harness.has_driver => harness.shot = "skipped"
        /\ harness.passed =>
              /\ harness.raised = "none"
              /\ harness.shot = "none"
              /\ Count(harness.steps, "take_failure_screenshot") = 0

\* a failed text assertion without a message whose capture failed
C19_Witness ==
    /\ harness.op = "assert_text_present"
    /\ ~harness.passed
    /\ harness.message = ""
    /\ harness.has_driver
    /\ harness.shot = "failed"
    /\ harness.raised = "Failed"
    /\ harness.msg.t = "default"

----------------------------------------------------------------------------
(* ReportManager: the allure commands. runs lists the commands a call      *)
(* invoked with what each did. subprocess.run waits for the command;       *)
(* subprocess.Popen only starts it, so a nonzero exit of a started command *)
(* is not seen by the caller. html is the content of html_report_dir:      *)
(* "empty", "report" (a generated report with its index.html) or "partial" *)
(* (what a failed rmtree left); results is the content of                  *)
(* allure_results_dir: "empty", "results" or "partial".                    *)

HtmlStates == {"empty", "report", "partial"}

Ran(cmd, outcome) == [cmd |-> cmd, outcome |-> outcome]
ReportReturns(value, runs, html) ==
    [ret |-> value, raised |-> "none", runs |-> runs, html |-> html]

\* html: the directory before the call; rmtree: what shutil.rmtree does
\* ("ok", "error" with nothing removed, "partial"); version, generate: what
\* the two allure commands do
generate_allure_report(clean_first, html, rmtree, version, generate) ==
    IF clean_first /\ rmtree # "ok"
    THEN ReportReturns(FALSE, <<>>,
                       IF rmtree = "partial" /\ html = "report" THEN "partial" ELSE html)
    ELSE LET cleaned == IF clean_first THEN "empty" ELSE html
         IN  IF version # "ok"
             THEN ReportReturns(FALSE, <<Ran("allure --version", version)>>, cleaned)
             ELSE ReportReturns(generate = "ok",
                                <<Ran("allure --version", version),
                                  Ran("allure generate", generate)>>,
                                IF generate = "ok" THEN "report" ELSE cleaned)

\* subprocess.Popen(cmd): raises only when the executable is missing
Start(cmd, popen, runs, html) ==
    ReportReturns(popen # "missing", runs \o <<Ran(cmd, popen)>>, html)

\* index_exists: the report's index.html exists; the other arguments are those
\* of the generate_allure_report() it calls when there is no report
open_allure_report(index_exists, html, rmtree, version, generate, popen) ==
    LET g == IF index_exists THEN ReportReturns(TRUE, <<>>, html)
             ELSE generate_allure_report(TRUE, html, rmtree, version, generate)
    IN  IF ~g.ret THEN g
        ELSE Start("allure open", popen, g.runs, g.html)

serve_allure_report(html, popen) == Start("allure serve", popen, <<>>, html)

\* rmtree: what shutil.rmtree does to the results directory; the exception is
\* logged and the method returns None either way
clean_allure_results(results, rmtree) ==
    IF rmtree = "ok" THEN "empty"
    ELSE IF rmtree = "partial" THEN "partial"
    ELSE results

ReportOps == {"generate_allure_report", "open_allure_report", "serve_allure_report"}

\* args: the call's boolean argument and whether its port is the default one
ReportCall(op, args, r, results) ==
    [op |-> op, args |-> args, before |-> report.html, html |-> r.html,
     results |-> results, ret |-> r.ret, raised |-> r.raised, runs |-> r.runs]

\* a report operation changes nothing but the report manager's record
ReportFrame ==
    /\ UNCHANGED <<dev, page, harness, extVars>>
    /\ UNCHANGED <<mergeVars, cfgVars, drvVars>>

RmtreeOutcomes == {"ok", "error", "partial"}

\* generate_allure_report(clean_first)
GenerateAllureReport ==
    /\ \E clean_first \in BOOLEAN, rmtree \in RmtreeOutcomes,
          version \in RunOutcomes, generate \in RunOutcomes :
          report' = ReportCall("generate_allure_report", <<clean_first, FALSE>>,
                               generate_allure_report(clean_first, report.html, rmtree,
                                                      version, generate),
                               report.results)
    /\ ReportFrame

\* index.html exists in a generated report, not in an empty directory
OpenAllureReport ==
    /\ \E index_exists \in BOOLEAN, rmtree \in RmtreeOutcomes,
          version \in RunOutcomes, generate \in RunOutcomes, popen \in RunOutcomes :
          /\ report.html = "report" => index_exists
          /\ report.html = "empty" => ~index_exists
          /\ report' = ReportCall("open_allure_report", <<index_exists, FALSE>>,
                                  open_allure_report(index_exists, report.html, rmtree,
                                                     version, generate, popen),
                                  report.results)
    /\ ReportFrame

Ports == {8080, 9090}

\* serve_allure_report(port)
ServeAllureReport ==
    /\ \E port \in Ports, popen \in RunOutcomes :
          report' = ReportCall("serve_allure_report", <<port = 8080, FALSE>>,
                               serve_allure_report(report.html, popen),
                               report.results)
    /\ ReportFrame

\* clean_allure_results(): returns None
CleanAllureResults ==
    /\ \E rmtree \in RmtreeOutcomes :
          report' = ReportCall("clean_allure_results", <<FALSE, FALSE>>,
                               [ret |-> NoneV, raised |-> "none", runs |-> <<>>,
                                html |-> report.html],
                               clean_allure_results(report.results, rmtree))
    /\ ReportFrame

\* ReportManager.__init__ makes the directories; an earlier run may have left
\* a report
ReportInit ==
    /\ MergeIdle
    /\ DriverIdle
    /\ ConfigIdle
    /\ config = EmptyMap
    /\ ExtIdle
    /\ dev = NoLibCall
    /\ page = NoLibCall
    /\ harness = NoLibCall
    /\ \E h \in {"empty", "report"}, res \in {"empty", "results"} :
          report = [op |-> "none", html |-> h, results |-> res]

ReportNext ==
    \/ GenerateAllureReport
    \/ OpenAllureReport
    \/ ServeAllureReport
    \/ CleanAllureResults

ReportSpec == ReportInit /\ [][ReportNext]_vars

\* each command is invoked at most once by the call
InvokedAtMostOnce ==
    \A i, j \in 1..Len(report.runs) :
        report.runs[i].cmd = report.runs[j].cmd => i = j

\* C20: generate_allure_report, open_allure_report and serve_allure_report
\* never raise, return False whenever a command they run is missing or exits
\* nonzero, return True only when the commands succeeded, and invoke each
\* command at most once per call.
C20_ReportCommandsGiveBoolean ==
    report.op \in ReportOps =>
        /\ report.raised = "none"
        /\ (\E i \in 1..Len(report.runs) : report.runs[i].outcome # "ok") => ~report.ret
        /\ report.ret => \A i \in 1..Len(report.runs) : report.runs[i].outcome = "ok"
        /\ InvokedAtMostOnce

\* the part of C20 that holds: no call raises, a missing executable gives
\* False, no command is invoked twice, and generate_allure_report returns
\* True exactly when both of its commands succeeded
ReportCommandsExceptStartedExit ==
    report.op \in ReportOps =>
        /\ report.raised = "none"
        /\ (\E i \in 1..Len(report.runs) : report.runs[i].outcome = "missing") => ~report.ret
        /\ InvokedAtMostOnce
        /\ report.op = "generate_allure_report" =>
              (report.ret <=> /\ Len(report.runs) = 2
                              /\ \A i \in 1..2 : report.runs[i].outcome = "ok")

----------------------------------------------------------------------------
(* run_tests.py: the test-runner script. steps lists what a run did, in    *)
(* order; runner is what subprocess.run(pytest) did: it exited with a      *)
(* code, was interrupted (KeyboardInterrupt), or raised another exception. *)

\* pytest's exit codes: 0 passed, 1 failures, 2 interrupted, 3 internal error,
\* 4 usage error, 5 no tests collected
PytestExitCodes == 0..5

RunnerOutcomes ==
    { [kind |-> "exit", code |-> c] : c \in PytestExitCodes }
        \cup { [kind |-> "interrupt", code |-> 0], [kind |-> "error", code |-> 0] }

ReportTypes == {"allure", "html", "both"}
Allure(report_type) == report_type \in {"allure", "both"}

\* what generate_allure_report does inside run_tests: it returns a boolean,
\* or the interrupt passes through its except Exception
GenerateOutcomes == {"ok", "failed", "interrupt"}

RunResult(ret, steps) == [ret |-> ret, steps |-> steps]

\* a generate step taken whatever the runner's return code
GeneratesOnAnyCode(code) == TRUE

\* the generate step is taken on return codes 0 and 1 alone
GeneratesOn(code) == code \in {0, 1}

\* run_tests(report_type=..., collect_only=...)
run_tests(report_type, collect_only, runner, gen) ==
    LET prepare ==
            IF collect_only THEN <<>>
            ELSE (IF Allure(report_type) THEN <<"clean_allure_results">> ELSE <<>>)
                 \o (IF report_type \in {"html", "both"}
                     THEN <<"generate_pytest_html_report">> ELSE <<>>)
        ran == prepare \o <<"pytest">>
    IN  CASE runner.kind = "interrupt" -> RunResult(130, ran)
          [] runner.kind = "error" -> RunResult(1, ran)
          [] OTHER ->
                IF ~collect_only /\ GeneratesOn(runner.code) /\ Allure(report_type)
                THEN IF gen = "interrupt"
                     THEN RunResult(130, ran \o <<"generate_allure_report">>)
                     ELSE RunResult(runner.code, ran \o <<"generate_allure_report">>)
                ELSE RunResult(runner.code, ran)

\* main(): the branches on --clean-reports and --serve-report, then the run
main(clean_reports, serve_report, report_type, collect_only, open_report, runner, gen) ==
    IF clean_reports
    THEN RunResult(0, <<"clean_allure_results", "cleanup_old_reports">>)
    ELSE IF serve_report
    THEN RunResult(0, <<"serve_allure_report">>)
    ELSE LET r == run_tests(report_type, collect_only, runner, gen)
         IN  IF open_report /\ ~collect_only /\ Allure(report_type)
             THEN RunResult(r.ret, r.steps \o <<"open_allure_report">>)
             ELSE r

CliCall(op, flags, report_type, runner, r) ==
    [op |-> op, flags |-> flags, report_type |-> report_type, runner |-> runner,
     exit |-> r.ret, steps |-> r.steps]

\* a run of a script changes nothing but the script's record
CliFrame ==
    /\ UNCHANGED <<dev, page, harness, report, util, test_driver, race>>
    /\ UNCHANGED <<mergeVars, cfgVars, drvVars>>

\* python run_tests.py [--clean-reports] [--serve-report] [-r type]
\* [--collect-only] [--open-report]
RunTestsMain ==
    /\ \E clean_reports \in BOOLEAN, serve_report \in BOOLEAN,
          report_type \in ReportTypes, collect_only \in BOOLEAN,
          open_report \in BOOLEAN, runner \in RunnerOutcomes, gen \in GenerateOutcomes :
          cli' = CliCall("run_tests.main",
                         [clean_reports |-> clean_reports, serve_report |-> serve_report,
                          collect_only |-> collect_only, open_report |-> open_report],
                         report_type, runner,
                         main(clean_reports, serve_report, report_type, collect_only,
                              open_report, runner, gen))
    /\ CliFrame

\* run_tests() called as a function
RunTests ==
    /\ \E report_type \in ReportTypes, collect_only \in BOOLEAN,
          runner \in RunnerOutcomes, gen \in GenerateOutcomes :
          cli' = CliCall("run_tests",
                         [clean_reports |-> FALSE, serve_report |-> FALSE,
                          collect_only |-> collect_only, open_report |-> FALSE],
                         report_type, runner,
                         run_tests(report_type, collect_only, runner, gen))
    /\ CliFrame

\* init_framework.py: the checks of main, in the order of its list
Checks ==
    <<"check_python_version", "check_dependencies", "check_appium_server", "check_adb",
      "check_allure", "setup_directories", "create_sample_data">>

CheckNames == { Checks[i] : i \in 1..Len(Checks) }

RECURSIVE SuccessCount(_, _)
SuccessCount(results, i) ==
    IF i = 0 THEN 0
    ELSE SuccessCount(results, i - 1) + (IF results[Checks[i]] THEN 1 ELSE 0)

\* main(): every check is called and its result kept; success_count >=
\* total_count - 1 gives 0
init_framework_main(results) ==
    RunResult(IF SuccessCount(results, Len(Checks)) >= Len(Checks) - 1 THEN 0 ELSE 1,
              Checks)

\* python init_framework.py, results[c] what check c returns
InitFrameworkMain ==
    /\ \E results \in [CheckNames -> BOOLEAN] :
          cli' = [op |-> "init_framework.main", results |-> results,
                  exit |-> init_framework_main(results).ret,
                  steps |-> init_framework_main(results).steps]
    /\ CliFrame

CliInit ==
    /\ MergeIdle
    /\ DriverIdle
    /\ ConfigIdle
    /\ config = EmptyMap
    /\ LibIdle

CliNext ==
    \/ RunTestsMain
    \/ RunTests
    \/ InitFrameworkMain

CliSpec == CliInit /\ [][CliNext]_vars

\* the run launched the test runner
RanTests ==
    /\ cli.op \in {"run_tests.main", "run_tests"}
    /\ \E i \in 1..Len(cli.steps) : cli.steps[i] = "pytest"

\* C21: a run of the script that launches the test runner ends with exit code
\* 0, 1 or 130 whatever the runner did, and with 130 when it was interrupted
C21_ExitCodeIsZeroOneOr130 ==
    cli.op = "run_tests.main" =>
        /\ cli.exit \in {0, 1, 130}
        /\ (RanTests /\ cli.runner.kind = "interrupt") => cli.exit = 130

\* the part of C21 that holds: an interrupt gives 130, another exception 1,
\* and a runner that exits gives the runner's own code
ExitCodeIsRunnersOr130 ==
    (cli.op = "run_tests.main" /\ RanTests) =>
        /\ cli.runner.kind = "interrupt" => cli.exit = 130
        /\ cli.runner.kind = "error" => cli.exit = 1
        /\ cli.runner.kind = "exit" => cli.exit \in {cli.runner.code, 130}

\* position of a step in the run's steps, 0 when the run did not take it
StepIndex(name) ==
    IF \E i \in 1..Len(cli.steps) : cli.steps[i] = name
    THEN CHOOSE i \in 1..Len(cli.steps) : cli.steps[i] = name
    ELSE 0

\* C25: in a run with report type allure or both and without collect_only the
\* allure results are cleaned before the runner is launched, and the report
\* is generated only after the runner and only on return code 0 or 1; with
\* collect_only the run neither cleans nor generates
C25_CleanBeforeRunGenerateAfter ==
    RanTests =>
        /\ (Allure(cli.report_type) /\ ~cli.flags.collect_only) =>
              /\ StepIndex("clean_allure_results") > 0
              /\ StepIndex("clean_allure_results") < StepIndex("pytest")
        /\ StepIndex("generate_allure_report") > 0 =>
              /\ StepIndex("pytest") < StepIndex("generate_allure_report")
              /\ cli.runner.kind = "exit"
              /\ cli.runner.code \in {0, 1}
              /\ Allure(cli.report_type)
        /\ cli.flags.collect_only =>
              /\ StepIndex("clean_allure_results") = 0
              /\ StepIndex("generate_allure_report") = 0

\* a run with failures (return code 1) that cleaned, ran and generated
C25_Witness ==
    /\ cli.op = "run_tests"
    /\ cli.report_type = "both"
    /\ ~cli.flags.collect_only
    /\ cli.runner = [kind |-> "exit", code |-> 1]
    /\ cli.steps = <<"clean_allure_results", "generate_pytest_html_report", "pytest",
                     "generate_allure_report">>

----------------------------------------------------------------------------
(* Two runs of run_tests at once, sharing allure_results_dir. Each run     *)
(* cleans the directory, launches the runner, whose tests write result     *)
(* files into it, and generates the report from what the directory holds.  *)
(* No step takes a lock and the directory has no part of its own for a run.*)

MaxResultFiles == 2      \* result files the tests of one run write

RaceRuns == {"A", "B"}
ResultFile(r, n) == [run |-> r, n |-> n]

\* a clean that removes the files of the cleaning run alone
CleanOwnResults(r, files, rmtree) ==
    IF rmtree = "ok" THEN { f \in files : f.run # r } ELSE files

\* clean_allure_results: shutil.rmtree of the whole directory, then makedirs
CleanResults(r, files, rmtree) ==
    IF rmtree = "ok" THEN {} ELSE files

RaceFrame ==
    /\ UNCHANGED <<dev, page, harness, report, cli, util, test_driver>>
    /\ UNCHANGED <<mergeVars, cfgVars, drvVars>>

\* run_tests: report_manager.clean_allure_results() before the launch
RaceClean ==
    /\ \E r \in RaceRuns, rmtree \in {"ok", "error"} :
          /\ race.pc[r] = "start"
          /\ LET kept == CleanResults(r, race.results, rmtree)
             IN  race' = [race EXCEPT !.pc[r] = "running",
                                      !.results = kept,
                                      !.lost[r] = @ \cup (race.results \ kept),
                                      !.last = [op |-> "clean", run |-> r,
                                                ok |-> rmtree = "ok"]]
    /\ RaceFrame

\* a test of the run writes a result file (pytest --alluredir)
RaceWrite ==
    /\ \E r \in RaceRuns :
          /\ race.pc[r] = "running"
          /\ race.written[r] < MaxResultFiles
          /\ race' = [race EXCEPT !.written[r] = @ + 1,
                                  !.results = @ \cup {ResultFile(r, race.written[r] + 1)},
                                  !.last = [op |-> "write", run |-> r, ok |-> TRUE]]
    /\ RaceFrame

\* subprocess.run returns with the runner's code
RaceFinish ==
    /\ \E r \in RaceRuns, code \in PytestExitCodes :
          /\ race.pc[r] = "running"
          /\ race' = [race EXCEPT !.pc[r] = IF GeneratesOn(code) THEN "generate" ELSE "done",
                                  !.last = [op |-> "finish", run |-> r, ok |-> TRUE]]
    /\ RaceFrame

\* report_manager.generate_allure_report(): allure generate reads the directory
RaceGenerate ==
    /\ \E r \in RaceRuns :
          /\ race.pc[r] = "generate"
          /\ race' = [race EXCEPT !.pc[r] = "done",
                                  !.report[r] = [made |-> TRUE, files |-> race.results],
                                  !.last = [op |-> "generate", run |-> r, ok |-> TRUE]]
    /\ RaceFrame

RaceInit ==
    /\ MergeIdle
    /\ DriverIdle
    /\ ConfigIdle
    /\ config = EmptyMap
    /\ dev = NoLibCall
    /\ page = NoLibCall
    /\ harness = NoLibCall
    /\ report = NoLibCall
    /\ cli = NoLibCall
    /\ util = NoLibCall
    /\ test_driver = 0
    /\ race = [op |-> "race",
               pc |-> [r \in RaceRuns |-> "start"],
               results |-> {},
               written |-> [r \in RaceRuns |-> 0],
               lost |-> [r \in RaceRuns |-> {}],
               report |-> [r \in RaceRuns |-> [made |-> FALSE, files |-> {}]],
               last |-> [op |-> "none", run |-> "A", ok |-> TRUE]]

RaceNext ==
    \/ RaceClean
    \/ RaceWrite
    \/ RaceFinish
    \/ RaceGenerate

RaceSpec == RaceInit /\ [][RaceNext]_vars

\* result files run r wrote that its generated report does not hold
MissingFromReport(r) ==
    { ResultFile(r, n) : n \in 1..race.written[r] } \ race.report[r].files

\* C22: a run's clean empties the shared results directory whatever the other
\* run has written into it, and every result a run's report misses is one
\* the clean of the other run removed
C22_CleanRemovesOtherRunsResults ==
    race.op = "race" =>
        /\ (race.last.op = "clean" /\ race.last.ok) => race.results = {}
        /\ \A r \in RaceRuns :
              race.report[r].made =>
                  \A f \in MissingFromReport(r) :
                      \E o \in RaceRuns \ {r} : f \in race.lost[o]

\* run B wrote a result, run A's clean removed it, and B's generated report
\* misses it
C22_Witness ==
    /\ race.op = "race"
    /\ race.report["B"].made
    /\ ResultFile("B", 1) \in MissingFromReport("B")
    /\ ResultFile("B", 1) \in race.lost["A"]

----------------------------------------------------------------------------
(* utils/helpers.py: retry_on_exception. outs[k] is what the k-th          *)
(* invocation of the wrapped function does: it returns ("ok"), raises an   *)
(* exception of the classes in exceptions ("in_E") or raises another one   *)
(* ("outside_E"). An exception is named by the invocation that raised it.  *)

MaxRetries == 2          \* largest max_retries of a wrapper

InvocationOutcomes == {"ok", "in_E", "outside_E"}

\* an except clause that catches every exception
CaughtAlways(o) == o # "ok"

\* except exceptions as e
Caught(o) == o = "in_E"

NoException == [kind |-> "none", at |-> 0]
RetryResult(calls, sleeps, returned, raised) ==
    [calls |-> calls, sleeps |-> sleeps, returned |-> returned, raised |-> raised]

\* the wrapper's loop from attempt (0-based) on; raise last_exception after
\* it, which is raise None (a TypeError) when the loop ran no invocation
RECURSIVE RetryLoop(_, _, _, _)
RetryLoop(attempt, max_retries, outs, sleeps) ==
    IF attempt >= max_retries + 1
    THEN RetryResult(attempt, sleeps, 0,
                     IF attempt = 0 THEN [kind |-> "TypeError", at |-> 0]
                     ELSE [kind |-> "in_E", at |-> attempt])
    ELSE LET o == outs[attempt + 1]
         IN  IF o = "ok"
             THEN RetryResult(attempt + 1, sleeps, attempt + 1, NoException)
             ELSE IF Caught(o)
             THEN RetryLoop(attempt + 1, max_retries, outs,
                            IF attempt < max_retries THEN sleeps + 1 ELSE sleeps)
             ELSE RetryResult(attempt + 1, sleeps, 0,
                              [kind |-> "outside_E", at |-> attempt + 1])

\* a call of a function wrapped by retry_on_exception(max_retries, ...)
retry_on_exception(max_retries, outs) == RetryLoop(0, max_retries, outs, 0)

UtilFrame ==
    /\ UNCHANGED <<dev, page, harness, report, cli, test_driver, race>>
    /\ UNCHANGED <<mergeVars, cfgVars, drvVars>>

RetryOnException ==
    /\ util = NoLibCall
    /\ \E max_retries \in (-1)..MaxRetries,
          outs \in [1..(MaxRetries + 1) -> InvocationOutcomes] :
          util' = [op |-> "retry_on_exception", max_retries |-> max_retries,
                   outs |-> outs, r |-> retry_on_exception(max_retries, outs)]
    /\ UtilFrame

\* invocations among the first n that did not raise an exception in E
FirstOther(outs, n) ==
    IF \E k \in 1..n : outs[k] # "in_E"
    THEN CHOOSE k \in 1..n : outs[k] # "in_E" /\ \A j \in 1..(k - 1) : outs[j] = "in_E"
    ELSE 0

\* C23: with max_retries = n >= 0 the function is invoked at most n+1 times;
\* the wrapper returns the result of the first invocation that does not
\* raise, invoking nothing after it; it re-raises the last caught exception
\* when all n+1 invocations raise one of E; an exception outside E is
\* propagated at once
C23_RetryInvokesAtMostNPlusOne ==
    (util.op = "retry_on_exception" /\ util.max_retries >= 0) =>
        LET n == util.max_retries
            k == FirstOther(util.outs, n + 1)
        IN  /\ util.r.calls <= n + 1
            /\ k = 0 => /\ util.r.calls = n + 1
                        /\ util.r.raised = [kind |-> "in_E", at |-> n + 1]
                        /\ util.r.returned = 0
            /\ (k > 0 /\ util.outs[k] = "ok") =>
                        /\ util.r.calls = k
                        /\ util.r.returned = k
                        /\ util.r.raised = NoException
            /\ (k > 0 /\ util.outs[k] = "outside_E") =>
                        /\ util.r.calls = k
                        /\ util.r.returned = 0
                        /\ util.r.raised = [kind |-> "outside_E", at |-> k]

\* two failures in E, then a success on the third and last invocation
C23_Witness ==
    /\ util.op = "retry_on_exception"
    /\ util.max_retries = 2
    /\ util.outs[1] = "in_E" /\ util.outs[2] = "in_E" /\ util.outs[3] = "ok"
    /\ util.r.returned = 3
    /\ util.r.sleeps = 2

----------------------------------------------------------------------------
(* Polling waits: helpers.wait_for_condition and                           *)
(* BaseTest.wait_for_app_launch. Time is counted in ticks; polls[i] is     *)
(* what the i-th call of the condition does and how many ticks it takes;   *)
(* time.sleep(interval) takes interval ticks, at least one.                *)

MaxTimeout == 3          \* largest timeout of a wait, in ticks

PollOutcomes == {"true", "false", "raises"}
Poll(out, dur) == [out |-> out, dur |-> dur]
PollSeqs == [1..MaxTimeout -> { Poll(o, d) : o \in PollOutcomes, d \in 0..1 }]

\* a loop condition that admits a poll at the very end of the timeout
TimeLeftInclusive(elapsed, timeout) == elapsed <= timeout

\* while time.time() - start_time < timeout
TimeLeft(elapsed, timeout) == elapsed < timeout

WaitResult(ret, polled, caught, elapsed) ==
    [ret |-> ret, raised |-> "none", polled |-> polled, caught |-> caught,
     elapsed |-> elapsed]

\* the loop before its i-th poll, elapsed ticks after start_time was taken
RECURSIVE PollLoop(_, _, _, _, _, _)
PollLoop(elapsed, timeout, interval, polls, i, caught) ==
    IF ~TimeLeft(elapsed, timeout)
    THEN WaitResult(FALSE, i - 1, caught, elapsed)
    ELSE LET p == polls[i]
         IN  IF p.out = "true"
             THEN WaitResult(TRUE, i, caught, elapsed + p.dur)
             ELSE PollLoop(elapsed + p.dur + interval, timeout, interval, polls, i + 1,
                           IF p.out = "raises" THEN caught + 1 ELSE caught)

wait_for_condition(polls, timeout, interval) ==
    PollLoop(0, timeout, interval, polls, 1, 0)

\* the condition is self.driver.page_source, the interval one second
wait_for_app_launch(polls, timeout) == PollLoop(0, timeout, 1, polls, 1, 0)

WaitCall(op, polls, timeout, interval, r) ==
    [op |-> op, polls |-> polls, timeout |-> timeout, interval |-> interval, r |-> r]

WaitForCondition ==
    /\ util = NoLibCall
    /\ \E polls \in PollSeqs, timeout \in (-1)..MaxTimeout, interval \in 1..2 :
          util' = WaitCall("wait_for_condition", polls, timeout, interval,
                           wait_for_condition(polls, timeout, interval))
    /\ UtilFrame

WaitForAppLaunch ==
    /\ util = NoLibCall
    /\ \E polls \in PollSeqs, timeout \in (-1)..MaxTimeout :
          util' = WaitCall("wait_for_app_launch", polls, timeout, 1,
                           wait_for_app_launch(polls, timeout))
    /\ UtilFrame

UtilInit ==
    /\ MergeIdle
    /\ DriverIdle
    /\ ConfigIdle
    /\ config = EmptyMap
    /\ LibIdle

UtilNext ==
    \/ RetryOnException
    \/ WaitForCondition
    \/ WaitForAppLaunch

UtilSpec == UtilInit /\ [][UtilNext]_vars

WaitOps == {"wait_for_condition", "wait_for_app_launch"}

\* tick at which the i-th poll of the call starts when no earlier poll ends it
RECURSIVE PollStart(_)
PollStart(i) ==
    IF i = 1 THEN 0
    ELSE PollStart(i - 1) + util.polls[i - 1].dur + util.interval

\* polls that start before the timeout has elapsed
PollsInTime == { i \in 1..MaxTimeout : PollStart(i) < util.timeout }

\* C24: a wait terminates without raising; it returns True iff a poll that
\* started before the timeout elapsed saw a truthy condition; a poll that
\* raises counts as not satisfied; with timeout <= 0 it returns False
\* without a poll
C24_WaitsAreBoundedPolls ==
    util.op \in WaitOps =>
        /\ util.r.raised = "none"
        /\ util.r.ret <=> \E i \in PollsInTime : util.polls[i].out = "true"
        /\ util.r.polled <= Cardinality(PollsInTime)
        /\ ~util.r.ret => /\ util.r.polled = Cardinality(PollsInTime)
                          /\ util.r.elapsed >= util.timeout
        /\ util.timeout <= 0 => /\ ~util.r.ret
                                /\ util.r.polled = 0

\* a wait whose first poll raised, whose second was falsy and which timed out
C24_Witness ==
    /\ util.op = "wait_for_condition"
    /\ util.timeout = 2
    /\ util.interval = 1
    /\ util.polls[1].out = "raises"
    /\ util.polls[2].out = "false"
    /\ util.r.polled = 2
    /\ util.r.caught = 1
    /\ ~util.r.ret

\* C26: init_framework.main runs its seven checks whatever the earlier ones
\* gave, and returns 0 only when every check but the Allure one passed,
\* 1 otherwise
C26_InitOnlyAllureMayFail ==
    cli.op = "init_framework.main" =>
        /\ cli.steps = Checks
        /\ cli.exit \in {0, 1}
        /\ cli.exit = 0 => \A c \in CheckNames \ {"check_allure"} : cli.results[c]

\* the part of C26 that holds: all seven checks run, and the exit code is 0
\* exactly when at most one of them, whichever, failed
InitAtMostOneCheckFails ==
    cli.op = "init_framework.main" =>
        /\ cli.steps = Checks
        /\ cli.exit \in {0, 1}
        /\ cli.exit = 0 <=> Cardinality({ c \in CheckNames : ~cli.results[c] }) <= 1

----------------------------------------------------------------------------
(* DriverManager.wait against DriverManager.driver *)

\* C27: over every sequence of starts (succeeding or failing at any step),
\* quits and restarts, the explicit-wait helper is None whenever no session
\* is held, and when it is not None it was made for the session now held
C27_WaitBelongsToHeldSession ==
    /\ driver = 0 => wait = 0
    /\ wait # 0 => wait = driver

\* the part of C27 that holds: without a session there is no wait helper
NoWaitWithoutSession == driver = 0 => wait = 0

----------------------------------------------------------------------------
(* BaseTest's driver lifecycle: start_driver, stop_driver, restart_driver  *)
(* on one test instance, over the DriverManager it holds. test_driver is   *)
(* the instance's self.driver.                                             *)

\* the DriverManager start called by BaseTest.start_driver on a manager that
\* holds session held with wait helper helper; stopped: stop_driver ran first
BaseTestStart(op, platform, fail, held, helper, stopped) ==
    LET stage == IF Lower(platform) \notin {"android", "ios"} THEN "platform"
                 ELSE StartStage(Lower(platform), fail)
        opens == stage \in {"wait", "ok"}
    IN  /\ opened < MaxSessions
        /\ opened' = IF opens THEN opened + 1 ELSE opened
        /\ driver' = IF opens THEN opened + 1 ELSE held
        /\ wait' = IF stage = "ok" THEN opened + 1 ELSE helper
        \* self.driver = self.driver_manager.start_..._driver(capabilities)
        /\ test_driver' = IF stage = "ok" THEN opened + 1 ELSE test_driver
        /\ sent_caps' = IF stage \in {"platform", "config"} THEN NoCaps
                        ELSE RestartCaps(platform, NoneV, FALSE)
        /\ dlast' = [NoDriverCall EXCEPT
                        !.op = op, !.fail = fail, !.before = driver,
                        !.raised = stage # "ok",
                        !.ret = IF stage = "ok" THEN opened + 1 ELSE 0,
                        !.steps = (IF stopped THEN <<"stop_driver">> ELSE <<>>)
                                  \o <<platform>>]

TestFrame ==
    /\ UNCHANGED <<dev, page, harness, report, cli, util, race>>
    /\ UNCHANGED <<mergeVars, cfgVars>>

\* BaseTest.start_driver(platform)
BaseTestStartDriver ==
    /\ \E platform \in Platforms, fail \in FailSteps :
          BaseTestStart("BaseTest.start_driver", platform, fail, driver, wait, FALSE)
    /\ UNCHANGED quit_called
    /\ TestFrame

\* BaseTest.stop_driver(): driver_manager.quit_driver(); self.driver is not
\* assigned
BaseTestStopDriver ==
    /\ driver' = 0
    /\ wait' = 0
    /\ quit_called' = IF driver # 0 THEN quit_called \cup {driver} ELSE quit_called
    /\ dlast' = [NoDriverCall EXCEPT !.op = "BaseTest.stop_driver", !.before = driver]
    /\ UNCHANGED <<opened, sent_caps, test_driver>>
    /\ TestFrame

\* BaseTest.restart_driver(platform): stop_driver(), then start_driver(platform)
BaseTestRestartDriver ==
    /\ \E platform \in Platforms, fail \in FailSteps :
          BaseTestStart("BaseTest.restart_driver", platform, fail, 0, 0, TRUE)
    /\ quit_called' = IF driver # 0 THEN quit_called \cup {driver} ELSE quit_called
    /\ TestFrame

TestInit ==
    /\ LibIdle
    /\ MergeIdle
    /\ DriverIdle
    /\ ConfigIdle
    /\ config \in LifecycleConfigs

TestNext ==
    \/ BaseTestStartDriver
    \/ BaseTestStopDriver
    \/ BaseTestRestartDriver

TestSpec == TestInit /\ [][TestNext]_vars

\* C28: after any sequence of start_driver, stop_driver and restart_driver of
\* a test instance, self.driver is the session the DriverManager holds, and
\* no session when the manager holds none
C28_TestDriverIsManagersSession == test_driver = driver

\* the part of C28 that holds: right after a start or restart that returned,
\* self.driver is the session the manager holds
TestDriverIsManagersAfterStart ==
    (dlast.op \in {"BaseTest.start_driver", "BaseTest.restart_driver"} /\ ~dlast.raised) =>
        /\ test_driver = driver
        /\ driver # 0

----------------------------------------------------------------------------
(* The HTML report directory across generate_allure_report *)

\* C29: whenever generate_allure_report returns False the HTML report
\* directory holds what it held before the call, with clean_first True and
\* with clean_first False
C29_FailedGenerateKeepsReport ==
    (report.op = "generate_allure_report" /\ ~report.ret) =>
        report.html = report.before

\* the part of C29 that holds: a call with clean_first False that fails at
\* the allure --version check leaves the directory as it was
FailedVersionCheckKeepsReportUnlessCleaned ==
    (/\ report.op = "generate_allure_report"
     /\ ~report.args[1]
     /\ Len(report.runs) = 1) =>
        /\ ~report.ret
        /\ report.html = report.before

----------------------------------------------------------------------------
(* The last cycle of scroll_to_element *)

\* every scroll of the call has a presence check after it
ScrollsAreChecked ==
    \A i \in 1..Len(page.steps) :
        page.steps[i] = "scroll" =>
            \E j \in (i + 1)..Len(page.steps) : page.steps[j] = "check"

\* C30: every scroll scroll_to_element makes is followed by a presence check,
\* so a call that returns False with max_scrolls >= 1 has checked the screen
\* reached by its last scroll
C30_LastScrollIsChecked ==
    (/\ page.op = "scroll_to_element"
     /\ page.raised = "none"
     /\ page.args.max_scrolls >= 1) =>
        /\ ScrollsAreChecked
        /\ page.ret = BoolV(FALSE) => page.steps[Len(page.steps)] = "check"

\* the part of C30 that holds: a call that returns True has checked the
\* screen reached by every scroll it made, and a call that returns False
\* ends with a scroll that nothing checks
OnlyFoundElementIsCheckedAfterScroll ==
    (/\ page.op = "scroll_to_element"
     /\ page.raised = "none"
     /\ page.args.max_scrolls >= 1) =>
        /\ page.ret = BoolV(TRUE) => ScrollsAreChecked
        /\ page.ret = BoolV(FALSE) =>
              /\ ~ScrollsAreChecked
              /\ page.steps[Len(page.steps) - 1] = "scroll"
              /\ page.steps[Len(page.steps)] = "sleep"

====
